---- MODULE Spec2Model ----
(***************************************************************************)
(* Storytime: a multi-provider bedtime-story generator (Flask).            *)
(* The model covers llm_providers.py (provider registry, lookup,           *)
(* discovery, text generation) and app.py (title extraction, story files,  *)
(* file-backed session store, eviction sweep, request handlers).           *)
(*                                                                         *)
(* Text is modelled as a sequence of one-character strings, so that the    *)
(* string operations of the code (strip, split, count, replace, slicing)   *)
(* are computed character by character as Python computes them.            *)
(* A Python value is a record [t |-> type tag, v |-> payload].             *)
(***************************************************************************)
EXTENDS Integers, Sequences, FiniteSets, TLC

VARIABLES
    regEnv,      \* environment variables set when llm_providers is imported
    env,         \* environment variables set once load_dotenv() has run
    ollamaUp,    \* whether the Ollama server answers /api/tags with 200
    clock,       \* seconds since the start of the model's calendar
    sessions,    \* sessions/<id>.json : session id -> file
    storiesDir,  \* whether the stories/ directory exists
    stories,     \* stories/<filename> : filename -> file content
    images,      \* static/images/<filename> : the downloaded image files
    ret,         \* the last call: its operation, inputs and result
    calls        \* the set_session_value calls under way: call -> its position and locals

vars == <<regEnv, env, ollamaUp, clock, sessions, storiesDir, stories, images, ret, calls>>

(***************************************************************************)
(* Python values                                                           *)
(***************************************************************************)
PyStr(s) == [t |-> "str", v |-> s]
PyNone == [t |-> "none", v |-> <<>>]
PyInt(n) == [t |-> "int", v |-> <<n>>]
PyBool(b) == [t |-> "bool", v |-> <<b>>]
PyList(items) == [t |-> "list", v |-> items]
PyTuple(items) == [t |-> "tuple", v |-> items]
PySet(items) == [t |-> "set", v |-> items]

IsStr(x) == x.t = "str"

(***************************************************************************)
(* Python string operations on sequences of characters                     *)
(***************************************************************************)
Min(a, b) == IF a < b THEN a ELSE b

Whitespace == {" ", "\n", "\r", "\t"}

\* s[i:] with a 1-based index
Drop(s, i) == SubSeq(s, i, Len(s))

\* s[:n]
Take(s, n) == SubSeq(s, 1, Min(n, Len(s)))

\* s.startswith(p)
StartsWith(s, p) == Len(s) >= Len(p) /\ SubSeq(s, 1, Len(p)) = p

\* s[i:].startswith(p), 1-based
MatchAt(s, i, p) ==
    /\ i + Len(p) - 1 <= Len(s)
    /\ p # <<>> => s[i] = p[1]
    /\ SubSeq(s, i, i + Len(p) - 1) = p

RECURSIVE LStripSet(_, _)
LStripSet(s, cs) ==
    IF s # <<>> /\ Head(s) \in cs THEN LStripSet(Tail(s), cs) ELSE s

RECURSIVE RStripSet(_, _)
RStripSet(s, cs) ==
    IF s # <<>> /\ s[Len(s)] \in cs THEN RStripSet(SubSeq(s, 1, Len(s) - 1), cs) ELSE s

\* s.strip(chars)
StripSet(s, cs) == RStripSet(LStripSet(s, cs), cs)

\* s.strip()
Strip(s) == StripSet(s, Whitespace)

\* re.sub('[cs]', '', s)
RemoveChars(s, cs) == SelectSeq(s, LAMBDA c : c \notin cs)

\* s.replace(a, b) for single characters a and b
ReplaceChar(s, a, b) == [i \in 1..Len(s) |-> IF s[i] = a THEN b ELSE s[i]]

\* s.find(p) from 1-based position i; 0 when p does not occur
FirstOf(hits) == IF hits = {} THEN 0 ELSE CHOOSE j \in hits : \A k \in hits : j <= k

FindFrom(s, p, i) == FirstOf({j \in i..(Len(s) - Len(p) + 1) : MatchAt(s, j, p)})

\* p in s
Contains(s, p) == FindFrom(s, p, 1) # 0

\* s.count(p): occurrences that do not overlap, left to right (p not empty)
\* every position where p occurs in s, and the first of them from i on
HitsOf(s, p) == {j \in 1..(Len(s) - Len(p) + 1) : MatchAt(s, j, p)}

NextHit(hits, i) == FirstOf({j \in hits : j >= i})

RECURSIVE CountFrom(_, _, _)
CountFrom(hits, n, j) ==
    IF j = 0 THEN 0 ELSE 1 + CountFrom(hits, n, NextHit(hits, j + n))

CountHits(hits, n) == CountFrom(hits, n, NextHit(hits, 1))

Count(s, p) == CountHits(HitsOf(s, p), Len(p))

\* s.split(p): the pieces between the occurrences of p (p not empty)
\* (i is where the current piece starts, j where p next occurs, 0 if nowhere)
RECURSIVE SplitFrom(_, _, _, _, _)
SplitFrom(s, n, hits, i, j) ==
    IF j = 0 THEN <<Drop(s, i)>>
    ELSE <<SubSeq(s, i, j - 1)>> \o SplitFrom(s, n, hits, j + n, NextHit(hits, j + n))

SplitHits(s, n, hits) == SplitFrom(s, n, hits, 1, NextHit(hits, 1))

Split(s, p) == SplitHits(s, Len(p), HitsOf(s, p))

\* p.join(parts)
RECURSIVE Join(_, _)
Join(parts, p) ==
    IF parts = <<>> THEN <<>>
    ELSE IF Len(parts) = 1 THEN parts[1]
    ELSE parts[1] \o p \o Join(Tail(parts), p)

\* s.replace(p, r) for a substring p
ReplaceStr(s, p, r) == Join(Split(s, p), r)

\* the decimal digits of n, as str(n) writes them
Digit(d) == <<"0", "1", "2", "3", "4", "5", "6", "7", "8", "9">>[d + 1]

RECURSIVE IntToStr(_)
IntToStr(n) == IF n < 10 THEN <<Digit(n)>> ELSE IntToStr(n \div 10) \o <<Digit(n % 10)>>

\* '%02d' % n
TwoDigits(n) == <<Digit((n \div 10) % 10), Digit(n % 10)>>

(***************************************************************************)
(* llm_providers.py                                                        *)
(***************************************************************************)
EnvVars == {"OLLAMA_HOST", "OLLAMA_MODEL", "OPENAI_API_KEY", "ANTHROPIC_API_KEY", "MISTRAL_API_KEY"}

Ollama == <<"o", "l", "l", "a", "m", "a">>
OpenAI == <<"o", "p", "e", "n", "a", "i">>
Claude == <<"c", "l", "a", "u", "d", "e">>
Mistral == <<"m", "i", "s", "t", "r", "a", "l">>

\* the keys of the registry LLM_PROVIDERS
LLM_PROVIDERS == {Ollama, OpenAI, Claude, Mistral}

\* the environment variable a provider's constructor reads for its host or API key
KeyVar(name) ==
    CASE name = Ollama -> "OLLAMA_HOST"
      [] name = OpenAI -> "OPENAI_API_KEY"
      [] name = Claude -> "ANTHROPIC_API_KEY"
      [] name = Mistral -> "MISTRAL_API_KEY"

\* a provider object built while the environment is e: configured is
\* "self.host is set" for Ollama and "self.client is not None" for the others
NewProvider(name, e, isFresh) ==
    [cls |-> name, configured |-> KeyVar(name) \in e, fresh |-> isFresh]

\* LLM_PROVIDERS[name]: the instances are built once, when the module is imported
Registered(name) == NewProvider(name, regEnv, FALSE)

\* provider.is_available: Ollama probes the server, the others look at self.client
IsAvailable(p) ==
    IF p.cls = Ollama THEN p.configured /\ ollamaUp ELSE p.configured

\* what the backend does with one request
OllamaResponses == {"ok", "neterr", "httperr", "notjson", "notobject", "nokey", "null", "number"}
SdkResponses == {"ok", "apierr", "nochoices", "nullcontent"}
ClaudeResponses == {"ok", "apierr", "nocontent", "notext"}

ResponsesOf(name) ==
    IF name = Ollama THEN OllamaResponses
    ELSE IF name = Claude THEN ClaudeResponses
    ELSE SdkResponses

\* str(e) of the exception a response raises inside generate_text
ExcText(resp) ==
    CASE resp \in {"neterr", "apierr"} -> <<"r", "e", "f", "u", "s", "e", "d">>
      [] resp = "httperr" -> <<"5", "0", "0">>
      [] resp = "notjson" -> <<"b", "a", "d", " ", "j", "s", "o", "n">>
      [] resp \in {"nochoices", "nocontent"} -> <<"i", "n", "d", "e", "x">>
      [] OTHER -> <<"n", "o", " ", "a", "t", "t", "r", "i", "b", "u", "t", "e">>

ErrorContacting(name) ==
    CASE name = Ollama -> <<"[", "E", "r", "r", "o", "r", " ", "c", "o", "n", "t", "a", "c", "t", "i", "n", "g", " ", "O", "l", "l", "a", "m", "a", ":", " ">>
      [] name = OpenAI -> <<"[", "E", "r", "r", "o", "r", " ", "c", "o", "n", "t", "a", "c", "t", "i", "n", "g", " ", "O", "p", "e", "n", "A", "I", ":", " ">>
      [] name = Claude -> <<"[", "E", "r", "r", "o", "r", " ", "c", "o", "n", "t", "a", "c", "t", "i", "n", "g", " ", "C", "l", "a", "u", "d", "e", ":", " ">>
      [] name = Mistral -> <<"[", "E", "r", "r", "o", "r", " ", "c", "o", "n", "t", "a", "c", "t", "i", "n", "g", " ", "M", "i", "s", "t", "r", "a", "l", ":", " ">>

NotConfigured(name) ==
    CASE name = OpenAI -> <<"[", "E", "r", "r", "o", "r", ":", " ", "O", "p", "e", "n", "A", "I", " ", "A", "P", "I", " ", "k", "e", "y", " ", "n", "o", "t", " ", "c", "o", "n", "f", "i", "g", "u", "r", "e", "d", "]">>
      [] name = Claude -> <<"[", "E", "r", "r", "o", "r", ":", " ", "A", "n", "t", "h", "r", "o", "p", "i", "c", " ", "A", "P", "I", " ", "k", "e", "y", " ", "n", "o", "t", " ", "c", "o", "n", "f", "i", "g", "u", "r", "e", "d", "]">>
      [] name = Mistral -> <<"[", "E", "r", "r", "o", "r", ":", " ", "M", "i", "s", "t", "r", "a", "l", " ", "A", "P", "I", " ", "k", "e", "y", " ", "n", "o", "t", " ", "c", "o", "n", "f", "i", "g", "u", "r", "e", "d", "]">>

\* OllamaProvider.generate_text: r.json().get("response", "") is returned as it is
OllamaGenerateText(p, resp, text) ==
    IF ~p.configured \/ resp \in {"neterr", "httperr", "notjson", "notobject"}
    THEN PyStr(ErrorContacting(Ollama) \o ExcText(resp) \o <<"]">>)
    ELSE IF resp = "nokey" THEN PyStr(<<>>)
    ELSE IF resp = "null" THEN PyNone
    ELSE IF resp = "number" THEN PyInt(0)
    ELSE PyStr(text)

\* OpenAIProvider / MistralProvider.generate_text: message.content is returned as it is
SdkGenerateText(p, resp, text) ==
    IF ~p.configured THEN PyStr(NotConfigured(p.cls))
    ELSE IF resp \in {"apierr", "nochoices"}
    THEN PyStr(ErrorContacting(p.cls) \o ExcText(resp) \o <<"]">>)
    ELSE IF resp = "nullcontent" THEN PyNone
    ELSE PyStr(text)

\* ClaudeProvider.generate_text
ClaudeGenerateText(p, resp, text) ==
    IF ~p.configured THEN PyStr(NotConfigured(Claude))
    ELSE IF resp \in {"apierr", "nocontent", "notext"}
    THEN PyStr(ErrorContacting(Claude) \o ExcText(resp) \o <<"]">>)
    ELSE PyStr(text)

\* provider.generate_text(prompt), the backend answering resp (with text when ok)
GenerateText(p, resp, text) ==
    IF p.cls = Ollama THEN OllamaGenerateText(p, resp, text)
    ELSE IF p.cls = Claude THEN ClaudeGenerateText(p, resp, text)
    ELSE SdkGenerateText(p, resp, text)

UnknownProviderMsg(name) == <<"U", "n", "k", "n", "o", "w", "n", " ", "p", "r", "o", "v", "i", "d", "e", "r", ":", " ">> \o name
OfflineMsg(name) == <<"P", "r", "o", "v", "i", "d", "e", "r", " ", "'">> \o name \o <<"'", " ", "i", "s", " ", "o", "f", "f", "l", "i", "n", "e", " ", "o", "r", " ", "n", "o", "t", " ", "p", "r", "o", "p", "e", "r", "l", "y", " ", "c", "o", "n", "f", "i", "g", "u", "r", "e", "d">>

\* get_provider without its second check, "if not provider.is_available"
GetProviderNoAvailabilityCheck(name) ==
    IF name \notin LLM_PROVIDERS
    THEN [t |-> "ValueError", v |-> UnknownProviderMsg(name)]
    ELSE [t |-> "provider", v |-> Registered(name)]

\* get_provider(provider_name): the instance, or the ValueError raised
GetProvider(name) ==
    IF name \notin LLM_PROVIDERS
    THEN [t |-> "ValueError", v |-> UnknownProviderMsg(name)]
    ELSE IF ~IsAvailable(Registered(name))
    THEN [t |-> "ValueError", v |-> OfflineMsg(name)]
    ELSE [t |-> "provider", v |-> Registered(name)]

\* get_available_providers(): the dict it returns, key -> instance
GetAvailableProviders ==
    LET avail == {n \in LLM_PROVIDERS : IsAvailable(Registered(n))}
        addOllama == "OLLAMA_HOST" \in env /\ "OLLAMA_MODEL" \in env
        keys == IF addOllama THEN avail \cup {Ollama} ELSE avail
    IN [n \in keys |->
           IF n = Ollama /\ addOllama THEN NewProvider(Ollama, env, TRUE)
           ELSE Registered(n)]

(***************************************************************************)
(* app.py: helper functions                                                *)
(***************************************************************************)
\* generate_story(provider_name, prompt)
GenerateStory(name, resp, text) ==
    LET p == GetProvider(name)
    IN IF p.t = "ValueError"
       THEN PyStr(<<"[", "E", "r", "r", "o", "r", " ", "w", "i", "t", "h", " ">> \o name \o <<":", " ">> \o p.v \o <<"]">>)
       ELSE GenerateText(p.v, resp, text)

(***************************************************************************)
(* The state every specification starts from, and the inputs               *)
(***************************************************************************)
NoCall == [op |-> "none"]

Bogus == <<"b", "o", "g", "u", "s">>

\* the provider names a request can carry: the registered ones and an unknown one
ProviderNames == LLM_PROVIDERS \cup {Bogus}

\* the provider objects a caller can hold
Instances == {Registered(n) : n \in LLM_PROVIDERS} \cup {NewProvider(Ollama, env, TRUE)}

ProviderTexts == {<<>>, <<"O", "n", "c", "e", " ", "u", "p", "o", "n", " ", "a", " ", "t", "i", "m", "e", ".">>}

\* the answers the backend of p can give in the current state
PossibleResponses(p) ==
    IF p.cls = Ollama /\ ~(p.configured /\ ollamaUp) THEN {"neterr"}
    ELSE ResponsesOf(p.cls)

(***************************************************************************)
(* Specification SpecProviders: the provider registry under every          *)
(* configuration, the Ollama server going up and down                      *)
(***************************************************************************)
InitProviders ==
    /\ env \in SUBSET EnvVars
    /\ regEnv \in SUBSET env
    /\ ollamaUp \in BOOLEAN
    /\ clock = 0
    /\ sessions = <<>>
    /\ storiesDir = TRUE
    /\ stories = <<>>
    /\ images = {}
    /\ ret = NoCall
    /\ calls = <<>>

OllamaFlip ==
    /\ ollamaUp' = ~ollamaUp
    /\ ret' = NoCall
    /\ UNCHANGED <<calls, regEnv, env, clock, sessions, storiesDir, stories, images>>

CallGenerateText ==
    \E p \in Instances : \E resp \in PossibleResponses(p) : \E text \in ProviderTexts :
        /\ ret' = [op |-> "generate_text", provider |-> p, resp |-> resp,
                   out |-> GenerateText(p, resp, text)]
        /\ UNCHANGED <<calls, regEnv, env, ollamaUp, clock, sessions, storiesDir, stories, images>>

CallGetProvider ==
    \E name \in ProviderNames :
        /\ ret' = [op |-> "get_provider", name |-> name, out |-> GetProvider(name)]
        /\ UNCHANGED <<calls, regEnv, env, ollamaUp, clock, sessions, storiesDir, stories, images>>

CallGetAvailableProviders ==
    /\ ret' = [op |-> "get_available_providers", out |-> GetAvailableProviders]
    /\ UNCHANGED <<calls, regEnv, env, ollamaUp, clock, sessions, storiesDir, stories, images>>

CallGenerateStory ==
    \E name \in ProviderNames :
      \E resp \in (IF name \in LLM_PROVIDERS THEN PossibleResponses(Registered(name)) ELSE {"ok"}) :
        \E text \in ProviderTexts :
          /\ ret' = [op |-> "generate_story", name |-> name, resp |-> resp,
                     out |-> GenerateStory(name, resp, text)]
          /\ UNCHANGED <<calls, regEnv, env, ollamaUp, clock, sessions, storiesDir, stories, images>>

NextProviders ==
    \/ OllamaFlip
    \/ CallGenerateText
    \/ CallGetProvider
    \/ CallGetAvailableProviders
    \/ CallGenerateStory

SpecProviders == InitProviders /\ [][NextProviders]_vars

ErrorPrefix == <<"[", "E", "r", "r", "o", "r">>

\* the request behind the last generate_text / generate_story call failed
CallFailed ==
    IF ret.op = "generate_text"
    THEN ~ret.provider.configured \/ ret.resp # "ok"
    ELSE \/ ret.name \notin LLM_PROVIDERS
         \/ KeyVar(ret.name) \notin regEnv
         \/ (ret.name = Ollama /\ ~ollamaUp)
         \/ ret.resp # "ok"

\* C2: text generation, by a provider or by generate_story over any provider
\* name, returns a string and never raises, and on any failure (network, auth,
\* malformed response, missing credential, unknown or unavailable provider) the
\* string begins with "[Error".
C2_StringAndErrorSentinel ==
    ret.op \in {"generate_text", "generate_story"} =>
        /\ IsStr(ret.out)
        /\ CallFailed => StartsWith(ret.out.v, ErrorPrefix)

\* the part of C2 the code keeps: no exception leaves the call, and every
\* exception caught inside it becomes a string beginning with "[Error"
C2_CaughtErrorsAreSentinels ==
    ret.op \in {"generate_text", "generate_story"} =>
        /\ ret.out.t \in {"str", "none", "int"}
        /\ ret.resp \notin {"ok", "nokey", "null", "number", "nullcontent"}
               => IsStr(ret.out) /\ StartsWith(ret.out.v, ErrorPrefix)

\* C7: get_provider returns the registered instance exactly when the name is
\* registered and that provider is available; otherwise it raises, and the
\* error for an unregistered name ("Unknown provider: ...") differs from the
\* error for a registered, unavailable provider.
C7_LookupByName ==
    ret.op = "get_provider" =>
        LET known == ret.name \in LLM_PROVIDERS
            usable == /\ known
                      /\ KeyVar(ret.name) \in regEnv
                      /\ (ret.name = Ollama => ollamaUp)
        IN /\ usable <=> ret.out.t = "provider"
           /\ usable => ret.out.v = [cls |-> ret.name, configured |-> TRUE, fresh |-> FALSE]
           /\ ~usable => ret.out.t = "ValueError"
           /\ ~usable => (~known <=> StartsWith(ret.out.v, <<"U", "n", "k", "n", "o", "w", "n", " ", "p", "r", "o", "v", "i", "d", "e", "r", ":", " ">>))
           /\ (known /\ ~usable) => StartsWith(ret.out.v, <<"P", "r", "o", "v", "i", "d", "e", "r", " ", "'">>)

\* a lookup of the registered, configured Ollama provider while the server is down
C7_Witness ==
    /\ ret.op = "get_provider"
    /\ ret.name = Ollama
    /\ "OLLAMA_HOST" \in regEnv
    /\ ~ollamaUp
    /\ ret.out.t = "ValueError"

\* C8: get_available_providers returns exactly the registered providers whose
\* is_available is true, so every key it returns is one get_provider resolves,
\* and no unavailable provider is offered.
C8_DiscoveryIsAvailability ==
    ret.op = "get_available_providers" =>
        /\ DOMAIN ret.out = {n \in LLM_PROVIDERS : IsAvailable(Registered(n))}
        /\ \A k \in DOMAIN ret.out : GetProvider(k).t = "provider"

(***************************************************************************)
(* app.py: extract_story_title                                             *)
(***************************************************************************)
\* the characters re.sub(r'[<>:"/\\|?*]', '', title) removes
Forbidden == {"<", ">", ":", "\"", "/", "\\", "|", "?", "*"}

\* the slice [:80]
MaxTitleLen == 80

UntitledStory == <<"U", "n", "t", "i", "t", "l", "e", "d", "_", "S", "t", "o", "r", "y">>

\* the cleaning of the provider's answer: strip, strip quotes, remove the
\* forbidden characters, spaces to underscores, cut, fall back when empty
CleanTitle(raw) ==
    LET title == Take(ReplaceChar(RemoveChars(StripSet(Strip(raw), {"\"", "'"}), Forbidden),
                                  " ", "_"),
                      MaxTitleLen)
    IN IF title # <<>> THEN title ELSE UntitledStory

\* extract_story_title(provider_name, story): generate_story(...).strip() raises
\* AttributeError when generate_story did not return a string
ExtractStoryTitle(name, resp, text) ==
    LET out == GenerateStory(name, resp, text)
    IN IF IsStr(out) THEN PyStr(CleanTitle(out.v))
       ELSE [t |-> "AttributeError", v |-> <<"n", "o", " ", "a", "t", "t", "r", "i", "b", "u", "t", "e", " ", "'", "s", "t", "r", "i", "p", "'">>]

\* answers of a provider to the title prompt
TitleTexts ==
    { <<>>,
      <<"\"", "?", "\"">>,
      <<"T", "h", "e", " ", "B", "r", "a", "v", "e", " ", "D", "r", "a", "g", "o", "n">>,
      <<"\"", "M", "i", "a", "'", "s", " ", "F", "l", "i", "g", "h", "t", "\"", "\n">>,
      <<"'", " ", "A", "'">>,
      <<"a", "<", "b", ">", "c", ":", " ", "d", "/", "e", "\\", "f", "|", "g", "?", "h", "*", "i">>,
      <<"A", "\n", "-", "-", "-", "\n", "B">>,
      <<"T", "h", "e", " ", "V", "e", "r", "y", " ", "L", "o", "n", "g", " ", "S", "t", "o", "r", "y", " ", "o", "f", " ", "a", " ", "L", "i", "t", "t", "l", "e", " ", "D", "r", "a", "g", "o", "n", " ", "W", "h", "o", " ", "W", "a", "n", "t", "e", "d", " ", "t", "o", " ", "F", "l", "y", " ", "O", "v", "e", "r", " ", "E", "v", "e", "r", "y", " ", "M", "o", "u", "n", "t", "a", "i", "n", " ", "i", "n", " ", "t", "h", "e", " ", "W", "o", "r", "l", "d">> }

(***************************************************************************)
(* Specification SpecTitle: extract_story_title over provider answers      *)
(***************************************************************************)
InitTitle == InitProviders /\ regEnv = env

CallExtractStoryTitle ==
    \E name \in ProviderNames :
      \E resp \in (IF name \in LLM_PROVIDERS THEN PossibleResponses(Registered(name)) ELSE {"ok"}) :
        \E text \in TitleTexts :
          /\ ret' = [op |-> "extract_story_title", name |-> name, resp |-> resp,
                     raw |-> GenerateStory(name, resp, text),
                     out |-> ExtractStoryTitle(name, resp, text)]
          /\ UNCHANGED <<calls, regEnv, env, ollamaUp, clock, sessions, storiesDir, stories, images>>

NextTitle ==
    \/ OllamaFlip
    \/ CallExtractStoryTitle

SpecTitle == InitTitle /\ [][NextTitle]_vars

\* what is left of a raw answer once the quotes, forbidden characters and
\* surrounding whitespace are gone
Remains(raw) == RemoveChars(StripSet(Strip(raw), {"\"", "'"}), Forbidden)

\* C5: extract_story_title returns, for every provider output, a non-empty
\* string of at most 80 characters with none of < > : " / \ | ? * and no space,
\* and the placeholder Untitled_Story when nothing remains after sanitization.
C5_TitleIsFilenameSafe ==
    ret.op = "extract_story_title" =>
        /\ IsStr(ret.out)
        /\ ret.out.v # <<>>
        /\ Len(ret.out.v) <= 80
        /\ \A i \in 1..Len(ret.out.v) : ret.out.v[i] \notin Forbidden \cup {" "}
        /\ (IsStr(ret.raw) /\ Remains(ret.raw.v) = <<>>) => ret.out.v = UntitledStory

\* the same statement for the provider outputs that are strings
C5_StringOutputsGiveSafeTitles ==
    (ret.op = "extract_story_title" /\ IsStr(ret.raw)) =>
        /\ IsStr(ret.out)
        /\ ret.out.v # <<>>
        /\ Len(ret.out.v) <= 80
        /\ \A i \in 1..Len(ret.out.v) : ret.out.v[i] \notin Forbidden \cup {" "}
        /\ Remains(ret.raw.v) = <<>> => ret.out.v = UntitledStory

(***************************************************************************)
(* app.py: the file-backed session store                                   *)
(*                                                                         *)
(* A session file is [mtime, ok, data]: ok is FALSE when the file does not *)
(* hold a complete JSON document (a write that stopped half way), data is  *)
(* the JSON object it holds, key -> JSON value [t |-> kind, v |-> payload].*)
(* A session id without a file is not in DOMAIN sessions.                  *)
(***************************************************************************)
EmptyDict == [k \in {} |-> PyNone]

\* whether json.dump accepts the value
RECURSIVE Serializable(_)
Serializable(x) ==
    CASE x.t \in {"str", "int", "bool", "none"} -> TRUE
      [] x.t \in {"list", "tuple"} -> \A i \in 1..Len(x.v) : Serializable(x.v[i])
      [] OTHER -> FALSE

\* json.dump of one value: lists and tuples are both written as arrays
RECURSIVE JsonEncode(_)
RECURSIVE JsonEncodeItems(_)
JsonEncodeItems(items) ==
    IF items = <<>> THEN <<>>
    ELSE <<JsonEncode(Head(items))>> \o JsonEncodeItems(Tail(items))

JsonEncode(x) ==
    CASE x.t = "str" -> [t |-> "string", v |-> x.v]
      [] x.t = "int" -> [t |-> "number", v |-> x.v]
      [] x.t = "bool" -> [t |-> "boolean", v |-> x.v]
      [] x.t = "none" -> [t |-> "null", v |-> <<>>]
      [] OTHER -> [t |-> "array", v |-> JsonEncodeItems(x.v)]

\* json.load of one value: an array is read as a list
RECURSIVE JsonDecode(_)
RECURSIVE JsonDecodeItems(_)
JsonDecodeItems(items) ==
    IF items = <<>> THEN <<>>
    ELSE <<JsonDecode(Head(items))>> \o JsonDecodeItems(Tail(items))

JsonDecode(y) ==
    CASE y.t = "string" -> PyStr(y.v)
      [] y.t = "number" -> [t |-> "int", v |-> y.v]
      [] y.t = "boolean" -> [t |-> "bool", v |-> y.v]
      [] y.t = "null" -> PyNone
      [] OTHER -> PyList(JsonDecodeItems(y.v))

\* save_session_data(session_id, data); io is what the file system does:
\* "ok", "openfail" (open raises, the file stays as it was) or "writefail"
\* (the file is opened and truncated, the write raises). Every exception,
\* the TypeError of a value json cannot write included, is caught and printed.
SaveSessionData(files, sid, data, io, now) ==
    IF io = "openfail" THEN files
    ELSE IF io = "writefail" \/ \E k \in DOMAIN data : ~Serializable(data[k])
    THEN [s \in DOMAIN files \cup {sid} |->
             IF s = sid THEN [mtime |-> now, ok |-> FALSE, data |-> EmptyDict] ELSE files[s]]
    ELSE [s \in DOMAIN files \cup {sid} |->
             IF s = sid
             THEN [mtime |-> now, ok |-> TRUE,
                   data |-> [k \in DOMAIN data |-> JsonEncode(data[k])]]
             ELSE files[s]]

\* load_session_data(session_id); io is "ok" or "readfail". A missing file, a
\* read error and a document json cannot parse all give {}
LoadSessionData(files, sid, io) ==
    IF sid \notin DOMAIN files \/ io = "readfail" \/ ~files[sid].ok THEN EmptyDict
    ELSE [k \in DOMAIN files[sid].data |-> JsonDecode(files[sid].data[k])]

\* get_session_value with data.get(key) in place of data.get(key, default)
GetSessionValueNoDefault(files, sid, key, default, io) ==
    LET data == LoadSessionData(files, sid, io)
    IN IF key \in DOMAIN data THEN data[key] ELSE PyNone

\* get_session_value(key, default) in the session sid
GetSessionValue(files, sid, key, default, io) ==
    LET data == LoadSessionData(files, sid, io)
    IN IF key \in DOMAIN data THEN data[key] ELSE default

\* set_session_value(key, value) in the session sid: load the whole file,
\* set one key, write the whole file
SetSessionValue(files, sid, key, value, ioLoad, ioSave, now) ==
    LET data == LoadSessionData(files, sid, ioLoad)
        data2 == [k \in DOMAIN data \cup {key} |-> IF k = key THEN value ELSE data[k]]
    IN SaveSessionData(files, sid, data2, ioSave, now)

(***************************************************************************)
(* Specification SpecSession: set_session_value and get_session_value of   *)
(* two clients, the file system failing or not                             *)
(***************************************************************************)
SessionIds == {"s1", "s2"}
SetKeys == {"k", "story"}
GetKeys == SetKeys \cup {"missing"}

One == PyInt(1)

\* values a caller can hand to set_session_value: a string, a list, a tuple
\* (json writes it, as an array) and a set (json refuses it)
SessionValues ==
    {PyStr(<<"v">>), PyList(<<One>>), PyTuple(<<One>>), PySet(<<One>>)}

Defaults == {PyNone, PyStr(<<"d">>)}

InitSession ==
    /\ regEnv = {}
    /\ env = {}
    /\ ollamaUp = FALSE
    /\ clock = 0
    /\ sessions = EmptyDict
    /\ storiesDir = TRUE
    /\ stories = <<>>
    /\ images = {}
    /\ ret = NoCall
    /\ calls = <<>>

CallSetSessionValue ==
    \E sid \in SessionIds, key \in SetKeys, value \in SessionValues,
       ioLoad \in {"ok", "readfail"}, ioSave \in {"ok", "openfail", "writefail"} :
        /\ sessions' = SetSessionValue(sessions, sid, key, value, ioLoad, ioSave, clock)
        /\ ret' = [op |-> "set_session_value", sid |-> sid, key |-> key, value |-> value,
                   written |-> ioSave = "ok"]
        /\ UNCHANGED <<calls, regEnv, env, ollamaUp, clock, storiesDir, stories, images>>

CallGetSessionValue ==
    \E sid \in SessionIds, key \in GetKeys, default \in Defaults, io \in {"ok", "readfail"} :
        /\ ret' = [op |-> "get_session_value", sid |-> sid, key |-> key,
                   default |-> default, read |-> io = "ok",
                   out |-> GetSessionValue(sessions, sid, key, default, io),
                   after |-> IF ret.op = "set_session_value"
                             THEN [op |-> ret.op, sid |-> ret.sid, key |-> ret.key,
                                   value |-> ret.value, written |-> ret.written]
                             ELSE NoCall]
        /\ UNCHANGED <<calls, regEnv, env, ollamaUp, clock, sessions, storiesDir, stories, images>>

NextSession ==
    \/ CallSetSessionValue
    \/ CallGetSessionValue

SpecSession == InitSession /\ [][NextSession]_vars

\* the last call is a get of the key that the call before it set, in the same session
GetFollowsSet ==
    /\ ret.op = "get_session_value"
    /\ ret.after.op = "set_session_value"
    /\ ret.after.sid = ret.sid
    /\ ret.after.key = ret.key

\* values JSON keeps as they are: strings, numbers, booleans, null and lists of them
RECURSIVE JsonExact(_)
JsonExact(x) ==
    CASE x.t \in {"str", "int", "bool", "none"} -> TRUE
      [] x.t = "list" -> \A i \in 1..Len(x.v) : JsonExact(x.v[i])
      [] OTHER -> FALSE

\* C1: for any session id, key k and JSON-serializable value v,
\* set_session_value(k, v) followed by get_session_value(k, default) returns v,
\* and get_session_value on a key never set returns the default without failing.
C1_SetThenGet ==
    /\ (GetFollowsSet /\ Serializable(ret.after.value)) => ret.out = ret.after.value
    /\ (ret.op = "get_session_value" /\ ret.key = "missing") => ret.out = ret.default

\* C1 as the code has it: when the file was written and read back without an
\* I/O error, get returns v for a value JSON keeps as it is and the list of
\* its items for a tuple; a key never set gives the default.
C1_SetThenGetWhenStored ==
    /\ (GetFollowsSet /\ ret.after.written /\ ret.read /\ JsonExact(ret.after.value))
           => ret.out = ret.after.value
    /\ (GetFollowsSet /\ ret.after.written /\ ret.read /\ ret.after.value.t = "tuple")
           => ret.out = PyList(ret.after.value.v)
    /\ (ret.op = "get_session_value" /\ ret.key = "missing") => ret.out = ret.default
    /\ (ret.op = "get_session_value" /\ ~ret.read) => ret.out = ret.default

\* a list is set, written and read back
C1_Witness ==
    /\ GetFollowsSet
    /\ ret.after.written
    /\ ret.read
    /\ ret.after.value = PyList(<<One>>)
    /\ ret.out = PyList(<<One>>)
    /\ ret.default = PyNone

(***************************************************************************)
(* app.py: cleanup_old_sessions and the landing page                       *)
(***************************************************************************)
\* "if current_time - file_time > 86400"
Retention == 86400

\* the orders in which os.listdir can name the files of S
Orders(S) == {f \in [1..Cardinality(S) -> S] : \A i, j \in 1..Cardinality(S) : f[i] = f[j] => i = j}

\* whether the sweep removes a file with this modification time
Expired(file, now) == now - file.mtime > Retention

ExpiredAtOrAfter(file, now) == now - file.mtime >= Retention

\* the files left when the sweep has gone through order[i..]; the call
\* numbered failAt (os.path.getmtime or os.remove of order[failAt]) raises,
\* which ends the loop: the one try block encloses the whole loop
RECURSIVE SweepFrom(_, _, _, _, _)
SweepFrom(files, order, i, failAt, now) ==
    IF i > Len(order) \/ i = failAt THEN files
    ELSE IF Expired(files[order[i]], now)
    THEN SweepFrom([s \in DOMAIN files \ {order[i]} |-> files[s]], order, i + 1, failAt, now)
    ELSE SweepFrom(files, order, i + 1, failAt, now)

\* the sweep with >= in place of > in the age test
RECURSIVE SweepFromAtThreshold(_, _, _, _, _)
SweepFromAtThreshold(files, order, i, failAt, now) ==
    IF i > Len(order) \/ i = failAt THEN files
    ELSE IF ExpiredAtOrAfter(files[order[i]], now)
    THEN SweepFromAtThreshold([s \in DOMAIN files \ {order[i]} |-> files[s]],
                              order, i + 1, failAt, now)
    ELSE SweepFromAtThreshold(files, order, i + 1, failAt, now)

CleanupOldSessionsAtThreshold(files, order, failAt, now) ==
    SweepFromAtThreshold(files, order, 1, failAt, now)

\* cleanup_old_sessions(): failAt = 0 when no call fails
CleanupOldSessions(files, order, failAt, now) == SweepFrom(files, order, 1, failAt, now)

(***************************************************************************)
(* Specification SpecSweep: three clients write their session files, time  *)
(* passes, the landing page sweeps                                         *)
(***************************************************************************)
SweepIds == {"s1", "s2", "s3"}

MaxDays == 2

\* the instants the clock takes: each day boundary and one second after it
Instants == {d * Retention + e : d \in 0..MaxDays, e \in {0, 1}}

InitSweep == InitSession

Tick ==
    /\ \E t \in Instants : t > clock /\ clock' = t
    /\ UNCHANGED <<calls, regEnv, env, ollamaUp, sessions, storiesDir, stories, images, ret>>

\* a request of client sid that stores a value in its session
Touch ==
    \E sid \in SweepIds :
        /\ sessions' = SetSessionValue(sessions, sid, "k", PyStr(<<"v">>), "ok", "ok", clock)
        /\ ret' = [op |-> "set_session_value", sid |-> sid]
        /\ UNCHANGED <<calls, regEnv, env, ollamaUp, clock, storiesDir, stories, images>>

\* GET /: index() runs cleanup_old_sessions() and renders the page. A
\* failure is the call (getmtime of any file, remove of an expired one) that raises.
Index ==
    \E order \in Orders(DOMAIN sessions) : \E failAt \in 0..Len(order) :
        /\ sessions' = CleanupOldSessions(sessions, order, failAt, clock)
        /\ ret' = [op |-> "cleanup_old_sessions",
                   now |-> clock,
                   before |-> sessions,
                   failed |-> failAt # 0,
                   passed |-> {order[i] : i \in 1..(IF failAt = 0 THEN Len(order) ELSE failAt - 1)},
                   providers |-> DOMAIN GetAvailableProviders]
        /\ UNCHANGED <<calls, regEnv, env, ollamaUp, clock, storiesDir, stories, images>>

NextSweep ==
    \/ Tick
    \/ Touch
    \/ Index

SpecSweep == InitSweep /\ [][NextSweep]_vars

C11_SweepGoesOnAfterFailure ==
    (ret.op = "cleanup_old_sessions" /\ ret.failed) =>
        Cardinality({sid \in DOMAIN ret.before \cap DOMAIN sessions :
                        ret.now - ret.before[sid].mtime > 86400}) <= 1

(***************************************************************************)
(* app.py: story files                                                     *)
(*                                                                         *)
(* stories maps the name of each file in stories/ to its content, the      *)
(* characters written. Files are opened in text mode: reading turns        *)
(* "\r\n" and "\r" into "\n" (universal newlines).                         *)
(***************************************************************************)
NoFiles == [f \in {} |-> <<>>]

\* what f.read() returns for content written earlier
ReadKept(s, kept) == [k \in 1..Len(kept) |-> IF s[kept[k]] = "\r" THEN "\n" ELSE s[kept[k]]]

ReadText(s) ==
    ReadKept(s, SelectSeq([i \in 1..Len(s) |-> i],
                          LAMBDA i : ~(s[i] = "\n" /\ i > 1 /\ s[i - 1] = "\r")))

\* datetime.now().strftime("%Y-%m-%d"), the calendar starting on 2025-01-01
DateStr(now) == <<"2", "0", "2", "5", "-", "0", "1", "-">> \o TwoDigits(1 + now \div 86400)

\* datetime.now().strftime('%Y-%m-%d at %H:%M:%S')
TimeStr(now) ==
    DateStr(now) \o <<" ", "a", "t", " ">> \o TwoDigits((now % 86400) \div 3600) \o <<":">>
        \o TwoDigits((now % 3600) \div 60) \o <<":">> \o TwoDigits(now % 60)

Rule == <<"-", "-", "-">>
ChapterMarker == <<"#", "#", " ", "C", "h", "a", "p", "t", "e", "r">>
Heading == <<"#", " ">>

\* the loop "for line in lines: if line.startswith('# '): title = ...; break"
RECURSIVE FirstHeading(_, _)
FirstHeading(lines, default) ==
    IF lines = <<>> THEN default
    ELSE IF StartsWith(Head(lines), Heading) THEN Strip(Drop(Head(lines), 3))
    ELSE FirstHeading(Tail(lines), default)

\* the header with the title as it is, underscores kept
MarkdownRawTitle(title, provider, story, now) ==
    Heading \o title \o <<"\n", "\n">>
        \o <<"*", "G", "e", "n", "e", "r", "a", "t", "e", "d", " ", "o", "n", " ">> \o TimeStr(now) \o <<"*", "\n">>
        \o <<"*", "U", "s", "i", "n", "g", " ", "p", "r", "o", "v", "i", "d", "e", "r", ":", " ">> \o provider \o <<"*", "\n", "\n">>
        \o <<"-", "-", "-", "\n", "\n">>
        \o story

\* the header and the body, as save_story_to_file writes them
Markdown(title, provider, story, now) ==
    Heading \o ReplaceChar(title, "_", " ") \o <<"\n", "\n">>
        \o <<"*", "G", "e", "n", "e", "r", "a", "t", "e", "d", " ", "o", "n", " ">> \o TimeStr(now) \o <<"*", "\n">>
        \o <<"*", "U", "s", "i", "n", "g", " ", "p", "r", "o", "v", "i", "d", "e", "r", ":", " ">> \o provider \o <<"*", "\n", "\n">>
        \o <<"-", "-", "-", "\n", "\n">>
        \o story

\* files with name given the content text
WriteFile(files, name, text) ==
    [f \in DOMAIN files \cup {name} |-> IF f = name THEN text ELSE files[f]]

\* the title and filename of the branch "if existing_filename and existing_filename.strip()"
ExistingTarget(files, existing, readOk) ==
    [filename |-> existing,
     title |-> IF existing \in DOMAIN files
               THEN IF readOk
                    THEN FirstHeading(Split(ReadText(files[existing]), <<"\n">>), <<"U", "n", "t", "i", "t", "l", "e", "d", " ", "S", "t", "o", "r", "y">>)
                    ELSE <<"U", "p", "d", "a", "t", "e", "d", " ", "S", "t", "o", "r", "y">>
               ELSE <<"U", "p", "d", "a", "t", "e", "d", " ", "S", "t", "o", "r", "y">>,
     raised |-> FALSE]

\* the title and filename of the branch that creates a new filename;
\* extract_story_title may raise, which leaves save_story_to_file
FreshNamed(title, now) ==
    [filename |-> DateStr(now) \o <<"_">> \o title \o <<".", "m", "d">>, title |-> title, raised |-> FALSE]

FreshTitled(story, extracted, now) ==
    IF ~IsStr(extracted)
    THEN [filename |-> <<>>, title |-> <<>>, raised |-> TRUE]
    ELSE IF Contains(story, <<"#", "#", " ", "C", "h", "a", "p", "t", "e", "r", " ", "2">>) \/ Contains(story, Rule)
    THEN FreshNamed(extracted.v \o <<"_", "C", "h", "a", "p", "t", "e", "r", "s", "_", "1", "-">> \o IntToStr(Count(story, ChapterMarker) + 1), now)
    ELSE FreshNamed(extracted.v, now)

FreshTarget(story, provider, resp, text, now) ==
    FreshTitled(story, ExtractStoryTitle(provider, resp, text), now)

\* save_story_to_file deriving a new filename whenever the named file does not exist
SaveTargetFreshWhenMissing(files, story, provider, existing, io, resp, text, now) ==
    IF existing # <<>> /\ Strip(existing) # <<>> /\ existing \in DOMAIN files
    THEN ExistingTarget(files, existing, io.read = "ok")
    ELSE FreshTarget(story, provider, resp, text, now)

\* lines 178-216: where save_story_to_file writes, and under which title
SaveTarget(files, story, provider, existing, io, resp, text, now) ==
    IF existing # <<>> /\ Strip(existing) # <<>>
    THEN ExistingTarget(files, existing, io.read = "ok")
    ELSE FreshTarget(story, provider, resp, text, now)

\* lines 173-176 and 218-234: the directory, the header and the write
SaveTo(dir, files, story, provider, target, extracted, io, now) ==
    IF ~dir /\ io.mkdir = "fail"
    THEN [out |-> [t |-> "OSError", v |-> <<"m", "a", "k", "e", "d", "i", "r", "s">>], dir |-> FALSE, files |-> files,
          title |-> <<>>, extracted |-> FALSE]
    ELSE IF target.raised
    THEN [out |-> [t |-> "AttributeError", v |-> <<"n", "o", " ", "a", "t", "t", "r", "i", "b", "u", "t", "e", " ", "'", "s", "t", "r", "i", "p", "'">>],
          dir |-> TRUE, files |-> files, title |-> <<>>, extracted |-> TRUE]
    ELSE IF io.write = "openfail"
    THEN [out |-> PyStr(<<>>), dir |-> TRUE, files |-> files,
          title |-> target.title, extracted |-> extracted]
    ELSE IF io.write = "writefail"
    THEN [out |-> PyStr(<<>>), dir |-> TRUE,
          files |-> WriteFile(files, target.filename, <<>>),
          title |-> target.title, extracted |-> extracted]
    ELSE [out |-> PyStr(target.filename), dir |-> TRUE,
          files |-> WriteFile(files, target.filename,
                              Markdown(target.title, provider, story, now)),
          title |-> target.title, extracted |-> extracted]

\* save_story_to_file(story, provider_name, existing_filename) with the
\* directory present or not and the files as given. io says what the file
\* system does: io.mkdir ("ok", "fail") for os.makedirs, io.read for reading
\* the existing file, io.write ("ok", "openfail", "writefail") for the final
\* write; resp and text are the provider's answer to the title prompt.
\* The result: out (the value returned or the exception raised), the
\* directory and files afterwards, the title used and whether a title was extracted.
SaveStoryToFile(dir, files, story, provider, existing, io, resp, text, now) ==
    SaveTo(dir, files, story, provider,
           IF ~dir /\ io.mkdir = "fail"
           THEN [filename |-> <<>>, title |-> <<>>, raised |-> FALSE]
           ELSE SaveTarget(files, story, provider, existing, io, resp, text, now),
           ~(existing # <<>> /\ Strip(existing) # <<>>), io, now)

\* the scan of load_story_from_file: the title is the last "# " line met
\* before the first line that is "---" once stripped, the story starts after
\* that line (at the first line when there is none)
RECURSIVE ScanHeader(_, _, _)
ScanHeader(lines, i, title) ==
    IF i > Len(lines) THEN [title |-> title, start |-> 1]
    ELSE IF StartsWith(lines[i], Heading)
    THEN ScanHeader(lines, i + 1, Strip(Drop(lines[i], 3)))
    ELSE IF Strip(lines[i]) = Rule THEN [title |-> title, start |-> i + 1]
    ELSE ScanHeader(lines, i + 1, title)

\* the body that follows the header found by the scan
BodyFrom(lines, scan) ==
    [title |-> scan.title, body |-> Strip(Join(SubSeq(lines, scan.start, Len(lines)), <<"\n">>))]

\* the body without the final .strip()
BodyFromNoStrip(lines, scan) ==
    [title |-> scan.title, body |-> Join(SubSeq(lines, scan.start, Len(lines)), <<"\n">>)]

ParseStory(lines) == BodyFrom(lines, ScanHeader(lines, 1, <<"U", "n", "t", "i", "t", "l", "e", "d", " ", "S", "t", "o", "r", "y">>))

ParseStoryNoStrip(lines) == BodyFromNoStrip(lines, ScanHeader(lines, 1, <<"U", "n", "t", "i", "t", "l", "e", "d", " ", "S", "t", "o", "r", "y">>))

\* load_story_from_file keeping the outer whitespace of the body
LoadStoryFromFileNoStrip(dir, files, filename, readOk) ==
    IF filename \notin DOMAIN files /\ ~(filename = <<>> /\ dir)
    THEN [title |-> <<"S", "t", "o", "r", "y", " ", "N", "o", "t", " ", "F", "o", "u", "n", "d">>, body |-> <<"T", "h", "e", " ", "r", "e", "q", "u", "e", "s", "t", "e", "d", " ", "s", "t", "o", "r", "y", " ", "c", "o", "u", "l", "d", " ", "n", "o", "t", " ", "b", "e", " ", "f", "o", "u", "n", "d", ".">>]
    ELSE IF filename \notin DOMAIN files \/ ~readOk
    THEN [title |-> <<"E", "r", "r", "o", "r">>, body |-> <<"C", "o", "u", "l", "d", " ", "n", "o", "t", " ", "l", "o", "a", "d", " ", "t", "h", "e", " ", "s", "t", "o", "r", "y", ":", " ">> \o <<"e", "r", "r", "n", "o">>]
    ELSE ParseStoryNoStrip(Split(ReadText(files[filename]), <<"\n">>))

\* load_story_from_file(filename): (title, story_content). The path of the
\* empty filename is the directory itself, which exists and cannot be read.
LoadStoryFromFile(dir, files, filename, readOk) ==
    IF filename \notin DOMAIN files /\ ~(filename = <<>> /\ dir)
    THEN [title |-> <<"S", "t", "o", "r", "y", " ", "N", "o", "t", " ", "F", "o", "u", "n", "d">>, body |-> <<"T", "h", "e", " ", "r", "e", "q", "u", "e", "s", "t", "e", "d", " ", "s", "t", "o", "r", "y", " ", "c", "o", "u", "l", "d", " ", "n", "o", "t", " ", "b", "e", " ", "f", "o", "u", "n", "d", ".">>]
    ELSE IF filename \notin DOMAIN files \/ ~readOk
    THEN [title |-> <<"E", "r", "r", "o", "r">>, body |-> <<"C", "o", "u", "l", "d", " ", "n", "o", "t", " ", "l", "o", "a", "d", " ", "t", "h", "e", " ", "s", "t", "o", "r", "y", ":", " ">> \o <<"e", "r", "r", "n", "o">>]
    ELSE ParseStory(Split(ReadText(files[filename]), <<"\n">>))

(***************************************************************************)
(* Specification SpecSave: save_story_to_file and load_story_from_file     *)
(* over a stories directory, with a file system that may fail              *)
(***************************************************************************)
\* most story files the directory holds
MaxStories == 1

\* a filename no save has written
Gone == <<"g", "o", "n", "e", ".", "m", "d">>

\* story texts: with outer whitespace and a Windows line end; two chapters
\* joined the way generate_chapter joins them
SaveStories ==
    { <<" ", "O", "n", "e", ".", "\r", "\n", "T", "w", "o", ".", "\n">>,
      <<"M", "i", "a", ".", "\n", "\n", "-", "-", "-", "\n", "\n", "#", "#", " ", "C", "h", "a", "p", "t", "e", "r", " ", "2", "\n", "\n", "E", "n", "d", ".">> }

\* the provider's answers to the title prompt: a title, a title holding a
\* line "---", and a null response
SaveTitles ==
    { <<"ok", <<"M", "i", "a">>>>, <<"ok", <<"A", "\n", "-", "-", "-", "\n", "B">>>>, <<"null", <<>>>> }

\* files somebody put into stories/ by hand: one whose heading is not its
\* first line and holds an underscore and a trailing blank, one without a
\* heading
Note == <<"n", "o", "t", "e", ".", "m", "d">>

Notes == { <<"N", "o", "t", "e", "s", "\n", "#", " ", "M", "y", "_", "T", "a", "l", "e", " ", "\n", "T", "e", "x", "t">>, <<"T", "e", "x", "t", " ", "o", "n", "l", "y">> }

InitSave ==
    /\ env = {"OLLAMA_HOST", "OLLAMA_MODEL"}
    /\ regEnv = env
    /\ ollamaUp = TRUE
    /\ clock = 0
    /\ sessions = <<>>
    /\ \/ storiesDir \in BOOLEAN /\ stories = NoFiles
       \/ storiesDir = TRUE /\ \E content \in Notes : stories = (Note :> content)
    /\ images = {}
    /\ ret = NoCall
    /\ calls = <<>>

IsGiven(existing) == existing # <<>> /\ Strip(existing) # <<>>

CallSaveStoryToFile ==
    \E story \in SaveStories :
      \E existing \in {<<>>, <<" ">>, Gone} \cup DOMAIN stories :
        \E mk \in (IF storiesDir THEN {"ok"} ELSE {"ok", "fail"}) :
          \E rd \in (IF existing \in DOMAIN stories THEN {"ok", "fail"} ELSE {"ok"}) :
            \E wr \in {"ok", "openfail", "writefail"} :
              \E answer \in (IF IsGiven(existing) THEN {<<"ok", <<>>>>} ELSE SaveTitles) :
                \E r \in {SaveStoryToFile(storiesDir, stories, story, Ollama, existing,
                                           [mkdir |-> mk, read |-> rd, write |-> wr],
                                           answer[1], answer[2], clock)} :
                   /\ Cardinality(DOMAIN r.files) <= MaxStories
                   /\ storiesDir' = r.dir
                   /\ stories' = r.files
                   /\ ret' = [op |-> "save_story_to_file", story |-> story, provider |-> Ollama,
                              existing |-> existing, read |-> rd,
                              out |-> r.out, title |-> r.title, extracted |-> r.extracted,
                              before |-> stories]
                   /\ UNCHANGED <<calls, regEnv, env, ollamaUp, clock, sessions, images>>

CallLoadStoryFromFile ==
    \E filename \in {<<>>, Gone} \cup DOMAIN stories :
      \E readOk \in BOOLEAN :
        /\ ret' = [op |-> "load_story_from_file", filename |-> filename, readOk |-> readOk,
                   out |-> LoadStoryFromFile(storiesDir, stories, filename, readOk),
                   after |-> IF ret.op = "save_story_to_file" /\ ret.out = PyStr(filename)
                             THEN [op |-> ret.op, story |-> ret.story, title |-> ret.title]
                             ELSE NoCall]
        /\ UNCHANGED <<calls, regEnv, env, ollamaUp, clock, sessions, storiesDir, stories, images>>

NextSave ==
    \/ CallSaveStoryToFile
    \/ CallLoadStoryFromFile

SpecSave == InitSave /\ [][NextSave]_vars

\* the save returned the name of the file it wrote
Wrote(r) == r.op = "save_story_to_file" /\ IsStr(r.out) /\ r.out.v # <<>>

\* the load of the file that the save just before it returned
LoadFollowsSave == ret.op = "load_story_from_file" /\ ret.after.op = "save_story_to_file"

\* no line of the text is "---" once stripped
NoRuleLine(text) ==
    \A line \in {Split(ReadText(text), <<"\n">>)[i] : i \in 1..Len(Split(ReadText(text), <<"\n">>))} :
        Strip(line) # Rule

\* C3 as the spec states it: for every story text, loading the file that
\* save_story_to_file(text, provider) returned gives a body equal to text.
C3_RoundTrip ==
    LoadFollowsSave => ret.out.body = ret.after.story

\* C3, amended: when the save wrote the file, the title in its header holds
\* no line that is "---", and the file is read back without error, the body
\* loaded is the text with "\r\n" and "\r" read as "\n" and with its leading
\* and trailing whitespace removed.
C3_RoundTripUpToStrip ==
    (LoadFollowsSave /\ ret.filename # <<>> /\ ret.readOk /\ NoRuleLine(ret.after.title))
        => ret.out.body = Strip(ReadText(ret.after.story))

\* a text with outer whitespace and a Windows line end was saved, loaded
\* back, and came back changed
C3_Witness ==
    /\ LoadFollowsSave /\ ret.filename # <<>> /\ ret.readOk /\ NoRuleLine(ret.after.title)
    /\ ret.out.body = Strip(ReadText(ret.after.story))
    /\ ret.out.body # ret.after.story

\* the first line of a story file
UpTo(content, j) == IF j = 0 THEN content ELSE SubSeq(content, 1, j - 1)

TitleLine(content) ==
    UpTo(content, FirstOf({i \in 1..Len(content) : content[i] \in {"\n", "\r"}}))

\* C9 as the spec states it: the save writes to existing_filename exactly
\* when it is given and its file exists, and in every other case writes to
\* a fresh <date>_<title>.md with an extracted title.
C9_FreshUnlessFileExists ==
    Wrote(ret)
        => IF IsGiven(ret.existing) /\ ret.existing \in DOMAIN ret.before
           THEN ret.out.v = ret.existing /\ ~ret.extracted
           ELSE /\ ret.extracted
                /\ ret.out.v = DateStr(clock) \o <<"_">> \o ret.title \o <<".", "m", "d">>

\* the title a story file shows: the rest of its first line that starts
\* with "# ", stripped, underscores as blanks
HeadingsOf(lines) == {i \in 1..Len(lines) : StartsWith(lines[i], Heading)}

ShownTitle(lines) ==
    IF HeadingsOf(lines) = {} THEN <<"U", "n", "t", "i", "t", "l", "e", "d", " ", "S", "t", "o", "r", "y">>
    ELSE ReplaceChar(Strip(Drop(lines[FirstOf(HeadingsOf(lines))], 3)), "_", " ")

\* C9, amended: a save that writes goes to existing_filename whenever that
\* is given and not blank, whether or not its file exists, without
\* extracting a title: the header shows the text of the first line of the
\* file that starts with "# " (stripped, underscores as blanks) when the
\* file existed and was read, "Untitled Story" when it was read and no line
\* starts with "# ", and "Updated Story" when the file did not exist or
\* could not be read. Only when existing_filename is empty or blank does it
\* write to <date>_<title>.md with an extracted title.
C9_ExistingNameIsTheTarget ==
    Wrote(ret)
        => /\ IF IsGiven(ret.existing)
              THEN /\ ret.out.v = ret.existing
                   /\ ~ret.extracted
                   /\ TitleLine(stories[ret.existing]) =
                         IF ret.existing \in DOMAIN ret.before /\ ret.read = "ok"
                         THEN Heading \o ShownTitle(Split(ReadText(ret.before[ret.existing]),
                                                          <<"\n">>))
                         ELSE <<"#", " ", "U", "p", "d", "a", "t", "e", "d", " ", "S", "t", "o", "r", "y">>
              ELSE /\ ret.extracted
                   /\ ret.out.v = DateStr(clock) \o <<"_">> \o ret.title \o <<".", "m", "d">>
           /\ ret.out.v \in DOMAIN stories

\* a story was saved again under the name of its file, which was read, and
\* kept the title it had
C9_Witness ==
    /\ Wrote(ret) /\ IsGiven(ret.existing) /\ ret.read = "ok"
    /\ ret.existing \in DOMAIN ret.before
    /\ ret.out.v = ret.existing
    /\ ret.title \notin {<<"U", "p", "d", "a", "t", "e", "d", " ", "S", "t", "o", "r", "y">>, <<"U", "n", "t", "i", "t", "l", "e", "d", " ", "S", "t", "o", "r", "y">>}
    /\ TitleLine(stories[ret.existing]) = TitleLine(ret.before[ret.existing])

\* C10 as the spec states it: save_story_to_file never raises, and returns
\* the empty string when reading the existing file fails.
C10_SaveNeverRaises ==
    ret.op = "save_story_to_file"
        => IsStr(ret.out) /\ (ret.read = "fail" => ret.out.v = <<>>)

(***************************************************************************)
(* app.py: the routes. One browser session, whose cookie holds the id Sid. *)
(* During one request the session directory either works or does not:     *)
(* sio is "ok", or "fail" when every open of the session file raises.      *)
(***************************************************************************)
Sid == "s1"

SessGet(files, key, default, sio) ==
    GetSessionValue(files, Sid, key, default, IF sio = "ok" THEN "ok" ELSE "readfail")

SessSet(files, key, value, sio, now) ==
    SetSessionValue(files, Sid, key, value, IF sio = "ok" THEN "ok" ELSE "readfail",
                    IF sio = "ok" THEN "ok" ELSE "openfail", now)

\* set_session_value for each <<key, value>> of pairs, in order
RECURSIVE SessSetAll(_, _, _, _)
SessSetAll(files, pairs, sio, now) ==
    IF pairs = <<>> THEN files
    ELSE SessSetAll(SessSet(files, Head(pairs)[1], Head(pairs)[2], sio, now), Tail(pairs), sio, now)

\* bool(x)
Truthy(x) ==
    CASE x.t = "none" -> FALSE
      [] x.t = "int" -> x.v # <<0>>
      [] x.t = "bool" -> x.v = <<TRUE>>
      [] OTHER -> x.v # <<>>

\* x or d
OrElse(x, d) == IF Truthy(x) THEN x ELSE d

\* get_session_value("llm_provider", "ollama") or "ollama"
ProviderName(files, sio) ==
    OrElse(SessGet(files, "llm_provider", PyStr(Ollama), sio), PyStr(Ollama)).v

\* what a request leaves behind: its outcome ("ok", an HTTP error, or the
\* exception that left the handler), the session files, the stories
\* directory and the image files
Response(status, files, dir, sfiles, imgs) ==
    [status |-> status, sessions |-> files, dir |-> dir, stories |-> sfiles, images |-> imgs]

\* /start
Start(files, provider, wantImage, sio, now) ==
    SessSetAll(files,
               << <<"name_and_friends", PyStr(<<>>)>>, <<"favourite_things", PyStr(<<>>)>>,
                  <<"topic", PyStr(<<>>)>>, <<"llm_provider", PyStr(provider)>>,
                  <<"generate_image", PyBool(wantImage)>> >>,
               sio, now)

\* /generate, lines 578-582, and /generate_chapter, lines 697-701: after the
\* save, the saved_filename of the session is set to a filename that is not
\* empty
Saved(files, saved, imgs, sio, now) ==
    IF ~IsStr(saved.out)
    THEN Response(saved.out.t, files, saved.dir, saved.files, imgs)
    ELSE Response("ok",
                  IF saved.out.v # <<>> THEN SessSet(files, "saved_filename", saved.out, sio, now)
                  ELSE files,
                  saved.dir, saved.files, imgs)

\* /generate, lines 573-578: the title, then the save
GenerateTitled(files, dir, sfiles, imgs, pname, story, title, a, sio, now) ==
    IF ~IsStr(title) THEN Response(title.t, files, dir, sfiles, imgs)
    ELSE Saved(SessSetAll(files,
                          << <<"story_title", PyStr(ReplaceChar(title.v, "_", " "))>>,
                             <<"is_loaded_story", PyBool(FALSE)>> >>, sio, now),
               SaveStoryToFile(dir, sfiles, story.v, pname, <<>>, a.io,
                               a.title2[1], a.title2[2], now),
               imgs, sio, now)

\* /generate, lines 569-573: the story is stored whatever it is; the title
\* prompt cannot be built from a story that is no string
GenerateStored(files, dir, sfiles, imgs, pname, story, a, sio, now) ==
    IF ~IsStr(story) THEN Response("TypeError", files, dir, sfiles, imgs)
    ELSE GenerateTitled(files, dir, sfiles, imgs, pname, story,
                        ExtractStoryTitle(pname, a.title1[1], a.title1[2]), a, sio, now)

\* /generate. a holds what the environment answers: a.story, a.title1 (the
\* title of the session) and a.title2 (the title of the file) are the
\* provider's <<response, text>>, a.io is the file system of the save
Generate(files, dir, sfiles, imgs, a, sio, now) ==
    GenerateStored(SessSet(files, "story",
                           GenerateStory(ProviderName(files, sio), a.story[1], a.story[2]),
                           sio, now),
                   dir, sfiles, imgs, ProviderName(files, sio),
                   GenerateStory(ProviderName(files, sio), a.story[1], a.story[2]), a, sio, now)

\* existing_chapters + 1 in place of + 2
NextChapterNumPlusOne(story) == Count(story, ChapterMarker) + 1

\* lines 669-670: next_chapter_num
NextChapterNum(story) == Count(story, ChapterMarker) + 2

\* line 673: what is appended to the story before the new chapter
ChapterHeading(num) == <<"\n", "\n", "-", "-", "-", "\n", "\n", "#", "#", " ", "C", "h", "a", "p", "t", "e", "r", " ">> \o IntToStr(num) \o <<"\n", "\n">>

\* generate_image_prompt(provider_name, story): generate_story(...).strip()
GenerateImagePrompt(pname, resp, text) ==
    IF IsStr(GenerateStory(pname, resp, text))
    THEN PyStr(Strip(GenerateStory(pname, resp, text).v))
    ELSE [t |-> "AttributeError", v |-> <<"n", "o", " ", "a", "t", "t", "r", "i", "b", "u", "t", "e", " ", "'", "s", "t", "r", "i", "p", "'">>]

\* the name download_and_save_image gives the image of chapter num
ImageName(storyFilename, num) ==
    IF num > 1
    THEN ReplaceStr(storyFilename, <<".", "m", "d">>, <<>>) \o <<"_", "c", "h", "a", "p", "t", "e", "r", "_">> \o IntToStr(num) \o <<".", "p", "n", "g">>
    ELSE ReplaceStr(storyFilename, <<".", "m", "d">>, <<>>) \o <<".", "p", "n", "g">>

\* download_and_save_image(image_url, story_filename, chapter_num) with the
\* download and the write working (dl = "ok") or not: the filename, or ""
DownloadAndSaveImage(url, storyFilename, num, dl) ==
    IF url = <<>> \/ dl # "ok" THEN <<>> ELSE ImageName(storyFilename, num)

\* the markdown generate_chapter appends for the image of the new chapter
ChapterImageMarkdown(num, imageFilename) ==
    <<"\n", "\n", "!", "[", "C", "h", "a", "p", "t", "e", "r", " ">> \o IntToStr(num) \o <<" ", "I", "l", "l", "u", "s", "t", "r", "a", "t", "i", "o", "n", "]", "(", "s", "t", "a", "t", "i", "c", "/", "i", "m", "a", "g", "e", "s", "/">>
        \o imageFilename \o <<")">>

\* /generate_chapter, lines 695-699: the save under the saved_filename of the session
ChapterSave(files, dir, sfiles, imgs, pname, combined, a, sio, now) ==
    Saved(files,
          SaveStoryToFile(dir, sfiles, combined, pname,
                          OrElse(SessGet(files, "saved_filename", PyStr(<<>>), sio),
                                 PyStr(<<>>)).v,
                          a.io, a.title2[1], a.title2[2], now),
          imgs, sio, now)

\* lines 686-693: the image saved under imageFilename, if any, is embedded
ChapterEmbedded(files, dir, sfiles, imgs, pname, combined, num, imageFilename, a, sio, now) ==
    IF imageFilename = <<>>
    THEN ChapterSave(files, dir, sfiles, imgs, pname, combined, a, sio, now)
    ELSE ChapterSave(SessSet(files, "story",
                             PyStr(combined \o ChapterImageMarkdown(num, imageFilename)), sio, now),
                     dir, sfiles, imgs \cup {imageFilename}, pname,
                     combined \o ChapterImageMarkdown(num, imageFilename), a, sio, now)

\* lines 677-693: the illustration of the new chapter. a.prompt is the
\* provider's answer to the image prompt, a.url the URL the image API gives
\* ("" when it fails), a.dl the download
ChapterImage(files, dir, sfiles, imgs, pname, combined, num, description, a, sio, now) ==
    IF ~IsStr(description) THEN Response(description.t, files, dir, sfiles, imgs)
    ELSE IF a.url = <<>> \/ ~Truthy(SessGet(files, "saved_filename", PyStr(<<>>), sio))
    THEN ChapterSave(files, dir, sfiles, imgs, pname, combined, a, sio, now)
    ELSE ChapterEmbedded(files, dir, sfiles, imgs, pname, combined, num,
                         DownloadAndSaveImage(a.url,
                                              SessGet(files, "saved_filename", PyStr(<<>>), sio).v,
                                              num, a.dl),
                         a, sio, now)

\* lines 674-678: the combined story is stored, then the image branch
ChapterStored(files, dir, sfiles, imgs, pname, combined, num, chapter, a, sio, now) ==
    IF Truthy(SessGet(files, "generate_image", PyBool(FALSE), sio))
    THEN ChapterImage(files, dir, sfiles, imgs, pname, combined, num,
                      GenerateImagePrompt(pname, a.prompt[1], a.prompt[2]), a, sio, now)
    ELSE ChapterSave(files, dir, sfiles, imgs, pname, combined, a, sio, now)

\* lines 666-674: the new chapter is appended under its heading; a chapter
\* that is no string cannot be appended
ChapterAppended(files, dir, sfiles, imgs, pname, current, chapter, a, sio, now) ==
    IF ~IsStr(chapter) THEN Response("TypeError", files, dir, sfiles, imgs)
    ELSE ChapterStored(SessSet(files, "story",
                               PyStr(current \o ChapterHeading(NextChapterNum(current)) \o chapter.v),
                               sio, now),
                       dir, sfiles, imgs, pname,
                       current \o ChapterHeading(NextChapterNum(current)) \o chapter.v,
                       NextChapterNum(current), chapter, a, sio, now)

ChapterFrom(files, dir, sfiles, imgs, current, a, sio, now) ==
    IF ~Truthy(current) THEN Response("400", files, dir, sfiles, imgs)
    ELSE ChapterAppended(files, dir, sfiles, imgs, ProviderName(files, sio), current.v,
                         GenerateStory(ProviderName(files, sio), a.chapter[1], a.chapter[2]),
                         a, sio, now)

\* /generate_chapter. a.chapter, a.prompt and a.title2 are the provider's
\* answers, a.url and a.dl the image API and the download, a.io the file
\* system of the save
GenerateChapter(files, dir, sfiles, imgs, a, sio, now) ==
    ChapterFrom(files, dir, sfiles, imgs, SessGet(files, "story", PyStr(<<>>), sio), a, sio, now)

\* /read: the story of the selected file becomes the story of the session
ReadLoaded(files, loaded, sio, now) ==
    SessSetAll(files,
               << <<"story", PyStr(loaded.body)>>, <<"story_title", PyStr(loaded.title)>>,
                  <<"is_loaded_story", PyBool(TRUE)>>,
                  <<"llm_provider", SessGet(files, "llm_provider", PyStr(Ollama), sio)>>,
                  <<"generate_image", PyBool(FALSE)>> >>,
               sio, now)

Read(files, dir, sfiles, selected, readOk, sio, now) ==
    IF selected = <<>> THEN files
    ELSE ReadLoaded(files, LoadStoryFromFile(dir, sfiles, selected, readOk), sio, now)

\* embed_image_in_story, line 476: the reference a story of one chapter gets
StoryImageMarkdown(imageFilename) ==
    <<"\n", "\n", "!", "[", "S", "t", "o", "r", "y", " ", "I", "l", "l", "u", "s", "t", "r", "a", "t", "i", "o", "n", "]", "(", "s", "t", "a", "t", "i", "c", "/", "i", "m", "a", "g", "e", "s", "/">> \o imageFilename \o <<")">>

\* lines 484-498: the stripped chapter at position i (from 1) with its
\* reference: the image filename itself for the first, the image filename
\* without ".png" and with "_chapter_<i>.png" for the others; a chapter that
\* is empty gets none
EmbedChapter(chapter, i, imageFilename) ==
    IF chapter = <<>> THEN chapter
    ELSE chapter \o ChapterImageMarkdown(i,
                        IF i = 1 THEN imageFilename
                        ELSE ReplaceStr(imageFilename, <<".", "p", "n", "g">>, <<>>) \o <<"_", "c", "h", "a", "p", "t", "e", "r", "_">>
                                 \o IntToStr(i) \o <<".", "p", "n", "g">>)

\* lines 474-500, chapters being story_content.split("---")
EmbedChapters(story, chapters, imageFilename) ==
    IF Len(chapters) = 1 THEN story \o StoryImageMarkdown(imageFilename)
    ELSE Join([i \in 1..Len(chapters) |-> EmbedChapter(Strip(chapters[i]), i, imageFilename)],
              <<"\n", "\n", "-", "-", "-", "\n", "\n">>)

\* embed_image_in_story(story_content, image_filename)
EmbedImageInStory(story, imageFilename) ==
    IF imageFilename = <<>> THEN story
    ELSE EmbedChapters(story, Split(story, Rule), imageFilename)

\* /generate_image, lines 635-637: the value save_story_to_file returns is
\* dropped, an exception it raises leaves the handler
ImageResaved(files, saved, imgs) ==
    Response(IF IsStr(saved.out) THEN "ok" ELSE saved.out.t, files, saved.dir, saved.files, imgs)

\* lines 628-637: the image saved under imageFilename, if any, is embedded
\* in the story of the session, and the story file is written again
ImageDownloaded(files, dir, sfiles, imgs, savedName, current, imageFilename, a, sio, now) ==
    IF imageFilename = <<>> THEN Response("ok", files, dir, sfiles, imgs)
    ELSE ImageResaved(SessSet(files, "story", PyStr(EmbedImageInStory(current, imageFilename)),
                              sio, now),
                      SaveStoryToFile(dir, sfiles, EmbedImageInStory(current, imageFilename),
                                      ProviderName(files, sio), savedName, a.io,
                                      a.title2[1], a.title2[2], now),
                      imgs \cup {imageFilename})

\* lines 620-626: without a saved_filename nothing is downloaded; the image
\* is named after the number of chapter headings in the story, plus one
ImageUrlStored(files, dir, sfiles, imgs, savedName, current, a, sio, now) ==
    IF ~Truthy(savedName) THEN Response("ok", files, dir, sfiles, imgs)
    ELSE ImageDownloaded(files, dir, sfiles, imgs, savedName.v, current,
                         DownloadAndSaveImage(a.url, savedName.v,
                                              Count(current, ChapterMarker) + 1, a.dl),
                         a, sio, now)

\* lines 614-639: the image API gives a URL or "", which answers 500
ImageDescribed(files, dir, sfiles, imgs, description, a, sio, now) ==
    IF ~IsStr(description) THEN Response(description.t, files, dir, sfiles, imgs)
    ELSE IF a.url = <<>> THEN Response("500", files, dir, sfiles, imgs)
    ELSE ImageUrlStored(SessSet(files, "image_url", PyStr(a.url), sio, now), dir, sfiles, imgs,
                        SessGet(files, "saved_filename", PyStr(<<>>), sio),
                        OrElse(SessGet(files, "story", PyStr(<<>>), sio), PyStr(<<>>)).v,
                        a, sio, now)

\* /generate_image. a.prompt is the provider's answer to the image prompt,
\* a.url the URL the image API gives ("" when it fails), a.dl the download,
\* a.io the file system of the save
GenerateImage(files, dir, sfiles, imgs, a, sio, now) ==
    IF ~Truthy(SessGet(files, "story", PyStr(<<>>), sio))
    THEN Response("400", files, dir, sfiles, imgs)
    ELSE IF ~IsStr(SessGet(files, "story", PyStr(<<>>), sio))
    THEN Response("TypeError", files, dir, sfiles, imgs)
    ELSE ImageDescribed(files, dir, sfiles, imgs,
                        GenerateImagePrompt(ProviderName(files, sio), a.prompt[1], a.prompt[2]),
                        a, sio, now)

\* /check_image: the status it answers
CheckImage(files, sio) ==
    IF Truthy(SessGet(files, "image_url", PyNone, sio)) THEN "ready" ELSE "generating"

(***************************************************************************)
(* Specification Spec: one browser session using the application           *)
(***************************************************************************)
\* the highest chapter number an extension may give
MaxChapterNum == 3

StoryAnswers == { <<"ok", <<"A", ".">>>>, <<"null", <<>>>> }

\* a chapter, a chapter the provider opens with a heading of its own, and a
\* null response
ChapterAnswers == { <<"ok", <<"B", ".">>>>, <<"ok", <<"#", "#", " ", "C", "h", "a", "p", "t", "e", "r", " ", "2", "\n", "B", ".">>>>, <<"null", <<>>>> }

TitleAnswers == { <<"ok", <<"T">>>> }

Urls == { <<>>, <<"u">> }

\* the answers of the environment that no step of a request asks for
Quiet ==
    [story |-> <<"ok", <<"A", ".">>>>, chapter |-> <<"ok", <<"B", ".">>>>, title1 |-> <<"ok", <<"T">>>>,
     title2 |-> <<"ok", <<"T">>>>, prompt |-> <<"ok", <<"T">>>>, url |-> <<>>, dl |-> "ok",
     io |-> [mkdir |-> "ok", read |-> "ok", write |-> "ok"]]

\* the file systems a save can meet
SaveIos == [mkdir : {"ok", "fail"}, read : {"ok"}, write : {"ok"}]

\* the answers /generate can meet: each step is only asked when the steps
\* before it let the handler reach it
GenerateAnswers(dir) ==
    {a \in [story : StoryAnswers, chapter : {Quiet.chapter}, title1 : TitleAnswers,
            title2 : TitleAnswers, prompt : {Quiet.prompt}, url : {Quiet.url},
            dl : {Quiet.dl}, io : SaveIos] :
        /\ a.io.read = "ok"
        /\ dir => a.io.mkdir = "ok"
        /\ a.story[1] # "ok" => a.title1 = Quiet.title1
        /\ (a.story[1] # "ok" \/ a.title1[1] # "ok") => (a.title2 = Quiet.title2 /\ a.io = Quiet.io)
        /\ a.io.mkdir = "fail" => (a.title2 = Quiet.title2 /\ a.io.write = "ok")
        /\ a.title2[1] # "ok" => a.io.write = "ok"}

\* the answers /generate_chapter can meet in a session that wants images or
\* not, has a saved_filename or not, whose file exists or not
ChapterAnswersMet(dir, wants, has, exists) ==
    {a \in [story : {Quiet.story}, chapter : ChapterAnswers, title1 : {Quiet.title1},
            title2 : IF has THEN {Quiet.title2} ELSE TitleAnswers,
            prompt : IF wants THEN TitleAnswers ELSE {Quiet.prompt},
            url : IF wants THEN Urls ELSE {Quiet.url},
            dl : IF wants /\ has THEN {"ok", "fail"} ELSE {Quiet.dl},
            io : SaveIos] :
        /\ dir => a.io.mkdir = "ok"
        /\ ~exists => a.io.read = "ok"
        /\ a.url = <<>> => a.dl = Quiet.dl
        /\ a.prompt[1] # "ok" => (a.url = Quiet.url /\ a.title2 = Quiet.title2 /\ a.io = Quiet.io)
        /\ a.chapter[1] # "ok"
              => (a.prompt = Quiet.prompt /\ a.url = Quiet.url /\ a.title2 = Quiet.title2
                  /\ a.io = Quiet.io)
        /\ a.io.mkdir = "fail" => (a.title2 = Quiet.title2 /\ a.io.write = "ok" /\ a.io.read = "ok")
        /\ a.title2[1] # "ok" => a.io.write = "ok"}

\* what the session directory does during a request
SessionIo == {"ok", "fail"}

Init ==
    /\ env = {"OLLAMA_HOST", "OLLAMA_MODEL", "OPENAI_API_KEY"}
    /\ regEnv = env
    /\ ollamaUp = TRUE
    /\ clock = 0
    /\ sessions = EmptyDict
    /\ storiesDir = FALSE
    /\ stories = NoFiles
    /\ images = {}
    /\ ret = NoCall
    /\ calls = <<>>

\* the length of the run of extensions that ret ends, when that run began
\* with a generated story holding no chapter heading; -1 otherwise
Chain(r) == IF r.op \in {"generate", "generate_chapter"} THEN r.k ELSE 0 - 1

\* whether no chapter text of that run held a chapter heading
CleanChain(r) == IF r.op \in {"generate", "generate_chapter"} THEN r.clean ELSE FALSE

\* the story the session holds
SessionStory == SessGet(sessions, "story", PyStr(<<>>), "ok")

\* the saved_filename of the session
SessionSaved == SessGet(sessions, "saved_filename", PyStr(<<>>), "ok")

PostStart ==
    \E provider \in {Ollama}, wantImage \in BOOLEAN, sio \in SessionIo :
        /\ sessions' = Start(sessions, provider, wantImage, sio, clock)
        /\ ret' = [op |-> "start", status |-> "ok", sio |-> sio]
        /\ UNCHANGED <<calls, regEnv, env, ollamaUp, clock, storiesDir, stories, images>>

\* POST /generate meeting one of the answers, in a stories directory that
\* holds at most cap files
PostGenerateOf(answers, cap) ==
    \E a \in answers, sio \in SessionIo :
        \E r \in {Generate(sessions, storiesDir, stories, images, a, sio, clock)} :
            /\ Cardinality(DOMAIN r.stories) <= cap
            /\ sessions' = r.sessions
            /\ storiesDir' = r.dir
            /\ stories' = r.stories
            /\ images' = r.images
            /\ ret' = [op |-> "generate", status |-> r.status, sio |-> sio,
                       story |-> GenerateStory(ProviderName(sessions, sio),
                                               a.story[1], a.story[2]),
                       mkdir |-> a.io.mkdir, write |-> a.io.write,
                       title1 |-> a.title1, title2 |-> a.title2,
                       before |-> stories,
                       k |-> IF r.status = "ok" /\ sio = "ok"
                                /\ Count(a.story[2], ChapterMarker) = 0
                             THEN 0 ELSE 0 - 1,
                       clean |-> TRUE]
            /\ UNCHANGED <<calls, regEnv, env, ollamaUp, clock>>

PostGenerate == PostGenerateOf(GenerateAnswers(storiesDir), MaxStories)

\* the file the request that ret tells of loaded into the session, "" if
\* it loaded none
Loaded(r) == IF r.op = "read" /\ r.sio = "ok" THEN r.selected ELSE <<>>

\* POST /generate_chapter in a stories directory that holds at most cap files
PostGenerateChapterOf(cap) ==
    \E sio \in SessionIo :
      \E a \in (IF sio = "ok"
                THEN ChapterAnswersMet(storiesDir,
                         Truthy(SessGet(sessions, "generate_image", PyBool(FALSE), "ok")),
                         Truthy(SessGet(sessions, "saved_filename", PyStr(<<>>), "ok")),
                         SessGet(sessions, "saved_filename", PyStr(<<>>), "ok").v \in DOMAIN stories)
                ELSE {Quiet}) :
        \E current \in {SessGet(sessions, "story", PyStr(<<>>), sio)} :
          \E r \in {GenerateChapter(sessions, storiesDir, stories, images, a, sio, clock)} :
            /\ IsStr(current) => NextChapterNum(current.v) <= MaxChapterNum
            /\ Cardinality(DOMAIN r.stories) <= cap
            /\ sessions' = r.sessions
            /\ storiesDir' = r.dir
            /\ stories' = r.stories
            /\ images' = r.images
            /\ ret' = [op |-> "generate_chapter", status |-> r.status, sio |-> sio,
                       current |-> current, chapter |-> a.chapter[2],
                       loaded |-> Loaded(ret), before |-> stories,
                       k |-> IF r.status = "ok" /\ Chain(ret) >= 0 THEN Chain(ret) + 1
                             ELSE 0 - 1,
                       clean |-> CleanChain(ret) /\ Count(a.chapter[2], ChapterMarker) = 0]
            /\ UNCHANGED <<calls, regEnv, env, ollamaUp, clock>>

PostGenerateChapter == PostGenerateChapterOf(MaxStories)

PostRead ==
    \E selected \in {<<>>} \cup DOMAIN stories, readOk \in {TRUE}, sio \in SessionIo :
        /\ sessions' = Read(sessions, storiesDir, stories, selected, readOk, sio, clock)
        /\ ret' = [op |-> "read", status |-> "ok", sio |-> sio, selected |-> selected]
        /\ UNCHANGED <<calls, regEnv, env, ollamaUp, clock, storiesDir, stories, images>>

Next ==
    \/ PostStart
    \/ PostGenerate
    \/ PostGenerateChapter
    \/ PostRead

Spec == Init /\ [][Next]_vars

\* an extension that answered with success
Extended == ret.op = "generate_chapter" /\ ret.status = "ok"

\* C4 as the spec states it: each extension numbers its heading (count of
\* "## Chapter" in the current story) + 2, and after k extensions of a story
\* that began with no marker the story holds exactly k markers, the last
\* numbered k + 1.
C4_ChapterNumbering ==
    Extended =>
        /\ StartsWith(SessionStory.v,
                      ret.current.v \o ChapterHeading(Count(ret.current.v, ChapterMarker) + 2)
                          \o ret.chapter)
        /\ ret.k >= 1 =>
              /\ Count(SessionStory.v, ChapterMarker) = ret.k
              /\ Count(ret.current.v, ChapterMarker) + 2 = ret.k + 1

\* C4, amended: each extension that succeeds appends to the current story
\* one heading numbered (count of "## Chapter" in the current story) + 2 and
\* then the provider's chapter; after k extensions of a story that began
\* with no marker the story holds exactly k markers, the last numbered
\* k + 1, provided no chapter text of the provider itself held "## Chapter".
C4_NumberIsCountPlusTwo ==
    Extended =>
        /\ StartsWith(SessionStory.v,
                      ret.current.v \o ChapterHeading(Count(ret.current.v, ChapterMarker) + 2)
                          \o ret.chapter)
        /\ (ret.k >= 1 /\ ret.clean) =>
              /\ Count(SessionStory.v, ChapterMarker) = ret.k
              /\ Count(ret.current.v, ChapterMarker) + 2 = ret.k + 1

\* the second extension in a row of a generated story gave it its second
\* marker, numbered 3
C4_Witness ==
    /\ Extended /\ ret.k = 2 /\ ret.clean
    /\ Count(SessionStory.v, ChapterMarker) = 2
    /\ Contains(SessionStory.v, <<"#", "#", " ", "C", "h", "a", "p", "t", "e", "r", " ", "2", "\n", "\n", "B", ".", "\n", "\n", "-", "-", "-", "\n", "\n", "#", "#", " ", "C", "h", "a", "p", "t", "e", "r", " ", "3", "\n", "\n", "B", ".">>)

\* C14: every generate request over a working session directory completes
\* with status ok, whatever the provider does and whether or not the save
\* succeeds; the story of the session is then the provider's output or
\* the error sentinel, and is_loaded_story is false.
C14_GenerateReachesReady ==
    (ret.op = "generate" /\ ret.sio = "ok") =>
        /\ ret.status = "ok"
        /\ SessionStory = ret.story
        /\ SessGet(sessions, "is_loaded_story", PyNone, "ok") = PyBool(FALSE)

(***************************************************************************)
(* Specification SpecImage: the browser session of Spec, which also asks   *)
(* for illustrations and polls for them, over a session directory that     *)
(* works                                                                   *)
(***************************************************************************)
\* the most image references a story may hold when an illustration is asked for
MaxImageRefs == 1

ImageRef == <<"!", "[">>

\* the answers /generate_image can meet in a session that has a
\* saved_filename or not: each step is only asked when the steps before it
\* let the handler reach it
ImageAnswersMet(has) ==
    {a \in [story : {Quiet.story}, chapter : {Quiet.chapter}, title1 : {Quiet.title1},
            title2 : {Quiet.title2}, prompt : {<<"ok", <<"T">>>>, <<"null", <<>>>>}, url : Urls,
            dl : IF has THEN {"ok", "fail"} ELSE {Quiet.dl},
            io : [mkdir : {"ok"}, read : {"ok"},
                  write : IF has THEN {"ok", "openfail"} ELSE {"ok"}]] :
        /\ a.prompt[1] # "ok" => a.url = Quiet.url
        /\ a.url = <<>> => a.dl = Quiet.dl
        /\ (a.url = <<>> \/ a.dl # "ok") => a.io = Quiet.io}

PostGenerateImage ==
    \E sio \in SessionIo :
      \E a \in (IF sio = "ok"
                THEN ImageAnswersMet(Truthy(SessGet(sessions, "saved_filename", PyStr(<<>>), "ok")))
                ELSE {Quiet}) :
        \E r \in {GenerateImage(sessions, storiesDir, stories, images, a, sio, clock)} :
            /\ IsStr(SessionStory) => Count(SessionStory.v, ImageRef) <= MaxImageRefs
            /\ sessions' = r.sessions
            /\ storiesDir' = r.dir
            /\ stories' = r.stories
            /\ images' = r.images
            /\ ret' = [op |-> "generate_image", status |-> r.status, sio |-> sio,
                       before |-> SessionStory,
                       saved |-> SessGet(sessions, "saved_filename", PyStr(<<>>), "ok"),
                       prompt |-> a.prompt[1], url |-> a.url, dl |-> a.dl, write |-> a.io.write]
            /\ UNCHANGED <<calls, regEnv, env, ollamaUp, clock>>

\* GET /check_image, after the request that ret tells of
GetCheckImage ==
    \E sio \in SessionIo :
        /\ ret' = [op |-> "check_image", status |-> CheckImage(sessions, sio), sio |-> sio,
                   after |-> IF ret = NoCall THEN NoCall
                             ELSE [op |-> ret.op, status |-> ret.status, sio |-> ret.sio]]
        /\ UNCHANGED <<calls, regEnv, env, ollamaUp, clock, sessions, storiesDir, stories, images>>

\* the request just made met a session directory that works
Working == ret'.sio = "ok"

\* the request just made was answered with success
Answered == Working /\ ret'.status = "ok"

\* the extension just made gave a story of one chapter a second one that
\* holds no heading of its own
SecondChapter ==
    /\ Count(ret'.current.v, ChapterMarker) = 0
    /\ Count(ret'.chapter, ChapterMarker) = 0

NextImage ==
    \/ PostStart /\ Working
    \/ PostGenerate /\ Answered
    \/ PostGenerateChapter /\ Answered /\ SecondChapter
    \/ PostGenerateImage /\ Working
    \/ GetCheckImage /\ Working

SpecImage == Init /\ [][NextImage]_vars

\* where an image reference names its file
RefPath == <<"]", "(", "s", "t", "a", "t", "i", "c", "/", "i", "m", "a", "g", "e", "s", "/">>

\* every image reference in the text names the file name
RefsName(text, name) ==
    \A j \in HitsOf(text, RefPath) : MatchAt(text, j + Len(RefPath), name \o <<")">>)

\* the image file of chapter n of the story saved as filename
ChapterImageOf(filename, n) ==
    SubSeq(filename, 1, Len(filename) - 3)
        \o (IF n = 1 THEN <<>> ELSE <<"_", "c", "h", "a", "p", "t", "e", "r", "_">> \o IntToStr(n)) \o <<".", "p", "n", "g">>

\* C12: every image reference embedded for chapter N of the story names
\* <story-base>.png when N = 1 and <story-base>_chapter_<N>.png when N > 1,
\* and that file is one the application downloaded.
C12_ChapterImageNaming ==
    (IsStr(SessionStory) /\ IsStr(SessionSaved) /\ SessionSaved.v # <<>>) =>
        \A n \in 1..Len(Split(SessionStory.v, Rule)) :
            /\ RefsName(Split(SessionStory.v, Rule)[n], ChapterImageOf(SessionSaved.v, n))
            /\ Contains(Split(SessionStory.v, Rule)[n], RefPath)
                   => ChapterImageOf(SessionSaved.v, n) \in images

\* C19 as the spec states it: check_image reports ready only when an image
\* has been generated for the current story of the session; asked right
\* after a generate request replaced the story, before generate_image has
\* succeeded for it, it reports generating and not the image URL of an
\* earlier story.
C19_ReadyOnlyForCurrentStory ==
    (/\ ret.op = "check_image" /\ ret.after # NoCall
     /\ ret.after.op = "generate" /\ ret.after.status = "ok")
        => ret.status = "generating"

\* the chapters of the story of the session, which the rule separates
SessionChapters == Split(SessionStory.v, Rule)

\* C18 as the spec states it: after any sequence of generate, illustrate and
\* extend requests in one session, each chapter of the story text is
\* followed by at most one embedded image reference.
C18_OneImagePerChapter ==
    IsStr(SessionStory) =>
        \A i \in 1..Len(SessionChapters) : Count(SessionChapters[i], ImageRef) <= 1

\* a /generate_image request that found a story, and a step of which failed
IllustrationFailed ==
    /\ ret.op = "generate_image"
    /\ Truthy(ret.before)
    /\ \/ ret.prompt # "ok"
       \/ ret.url = <<>>
       \/ ~Truthy(ret.saved)
       \/ ret.dl # "ok"
       \/ ret.write # "ok"

\* C13: when any step of a generate_image request fails (image prompt,
\* image backend, download, missing saved filename, re-save), the story of
\* the session is the one it was before the request and the response
\* reports failure.
C13_IllustrationFailure ==
    IllustrationFailed => (SessionStory = ret.before /\ ret.status # "ok")

(***************************************************************************)
(* Specification SpecGenerate: one browser session that generates story    *)
(* after story, over a session directory that works and a provider whose   *)
(* titles differ from call to call                                         *)
(***************************************************************************)
\* the most files the stories directory holds
MaxLibrary == 2

\* a story, a story holding a horizontal rule, and the error sentinel of a
\* provider that cannot be reached
LibraryStories == { <<"ok", <<"A", ".">>>>, <<"ok", <<"A", ".", "\n", "-", "-", "-", "\n", "B", ".">>>>, <<"neterr", <<>>>> }

LibraryTitles == { <<"ok", <<"T">>>>, <<"ok", <<"U", "_", "V">>>> }

\* the answers /generate can meet: the provider asked for the story, for
\* the title of the session and for the title of the file, and the write
\* of the file working or not
LibraryAnswers ==
    {a \in [story : LibraryStories, chapter : {Quiet.chapter}, title1 : LibraryTitles,
            title2 : LibraryTitles, prompt : {Quiet.prompt}, url : {Quiet.url},
            dl : {Quiet.dl},
            io : [mkdir : {"ok"}, read : {"ok"}, write : {"ok", "openfail"}]] :
        a.story[1] # "ok" => a.title1 = a.title2}

\* the request just made left a session that asks for no illustrations
NoImages == ~Truthy(SessGet(sessions', "generate_image", PyBool(FALSE), "ok"))

NextGenerate ==
    \/ PostStart /\ Working /\ NoImages
    \/ PostGenerateOf(LibraryAnswers, MaxLibrary) /\ Answered

SpecGenerate == Init /\ [][NextGenerate]_vars

\* the title the result view shows
SessionTitle == SessGet(sessions, "story_title", PyStr(<<>>), "ok")

\* a generate request that completed
Generated == ret.op = "generate" /\ ret.status = "ok"

\* what a story file holds after its header, which the first rule ends
HeaderEnd == <<"\n", "-", "-", "-", "\n", "\n">>

FileBody(content) == Drop(content, FindFrom(content, HeaderEnd, 1) + Len(HeaderEnd))

C20_GenerateNeverOverwrites ==
    (Generated /\ ret.write = "ok") =>
        /\ SessionSaved.v \notin DOMAIN ret.before
        /\ \A f \in DOMAIN ret.before : stories[f] = ret.before[f]

(***************************************************************************)
(* Specification SpecStories: one browser session that generates stories   *)
(* under two titles, loads stored ones and extends them, over a session    *)
(* directory and a stories directory that work                             *)
(***************************************************************************)
\* the answers /generate meets: the story, and the same title both times
TitledAnswers ==
    {a \in LibraryAnswers :
        a.story = Quiet.story /\ a.title1 = a.title2 /\ a.io.write = "ok"}

NextStories ==
    \/ PostStart /\ Working /\ NoImages
    \/ PostGenerateOf(TitledAnswers, MaxLibrary) /\ Answered
    \/ PostRead /\ Working
    \/ PostGenerateChapterOf(MaxLibrary) /\ Answered /\ SecondChapter

SpecStories == Init /\ [][NextStories]_vars

\* C17 as the spec states it: after a load-existing request for the stored
\* file F followed by a chapter extension, the extended text is re-saved to
\* F itself, and that extension creates or overwrites no other story file,
\* whatever story the session held before the load.
C17_ExtensionResavedToLoaded ==
    (Extended /\ ret.loaded # <<>>) =>
        /\ DOMAIN stories = DOMAIN ret.before
        /\ \A f \in DOMAIN stories \ {ret.loaded} : stories[f] = ret.before[f]
        /\ FileBody(stories[ret.loaded]) = SessionStory.v

(***************************************************************************)
(* Specification SpecRace: two requests of one session call                *)
(* set_session_value at the same time. A call loads the whole file, sets   *)
(* its key in the mapping it loaded, opens the file for writing, which     *)
(* empties it, and writes the whole mapping when it closes the file.       *)
(* Nothing locks the file. Each writer writes from the start of the file   *)
(* and nothing shortens the file afterwards: what a longer document left   *)
(* behind it stays after a shorter one.                                    *)
(***************************************************************************)
\* the calls that can be under way at once
CallIds == {"c1", "c2"}

\* the key, of one character, that each call sets, and the texts the calls
\* store
RaceKeys == [c1 |-> "a", c2 |-> "b"]

RaceValues == { <<"x">>, <<"y", "y", "y", "y">> }

\* set_session_value writing its own key only
OnlyKey(data, key, value) == [k \in {key} |-> value]

\* set_session_value, line 365: data[key] = value, in the mapping loaded
WithKey(data, key, value) ==
    [k \in DOMAIN data \cup {key} |-> IF k = key THEN value ELSE data[k]]

RECURSIVE DumpSizeOf(_, _)
DumpSizeOf(data, keys) ==
    IF keys = {} THEN 0
    ELSE 10 + Len(data[CHOOSE k \in keys : TRUE].v)
            + DumpSizeOf(data, keys \ {CHOOSE k \in keys : TRUE})

\* the number of characters json.dump(data, f, ensure_ascii=False, indent=2)
\* writes for a mapping of one-character keys to texts that need no escape:
\* "{}", or "{", for each key a line break, two blanks, the key and the text
\* in quotes with ": " between, commas between the entries, a line break, "}"
DumpSize(data) ==
    IF DOMAIN data = {} THEN 2
    ELSE 1 + DumpSizeOf(data, DOMAIN data) + (Cardinality(DOMAIN data) - 1) + 2

\* the number of characters in the file of session sid: with two calls, a
\* file that holds no complete document at the time of a write is one a
\* call has just emptied
FileSize(files, sid) ==
    IF sid \in DOMAIN files /\ files[sid].ok
    THEN DumpSize(LoadSessionData(files, sid, "ok"))
    ELSE 0

InitRace == InitSession

\* a request enters set_session_value(key, value)
EnterSetSessionValue ==
    \E c \in (CallIds \ DOMAIN calls) : \E key \in {RaceKeys[c]}, value \in RaceValues :
        /\ calls' = [d \in DOMAIN calls \cup {c} |->
                        IF d = c
                        THEN [pc |-> "load", key |-> key, value |-> PyStr(value),
                              loaded |-> EmptyDict]
                        ELSE calls[d]]
        /\ UNCHANGED <<regEnv, env, ollamaUp, clock, sessions, storiesDir, stories, images, ret>>

\* line 364: data = load_session_data(session_id)
LoadStep ==
    \E c \in DOMAIN calls :
        /\ calls[c].pc = "load"
        /\ calls' = [calls EXCEPT ![c].pc = "open",
                                  ![c].loaded = LoadSessionData(sessions, Sid, "ok")]
        /\ UNCHANGED <<regEnv, env, ollamaUp, clock, sessions, storiesDir, stories, images, ret>>

\* save_session_data, line 333: open(filepath, 'w') empties the file
OpenStep ==
    \E c \in DOMAIN calls :
        /\ calls[c].pc = "open"
        /\ calls' = [calls EXCEPT ![c].pc = "write"]
        /\ sessions' = SaveSessionData(sessions, Sid, EmptyDict, "writefail", clock)
        /\ UNCHANGED <<regEnv, env, ollamaUp, clock, storiesDir, stories, images, ret>>

\* lines 333-334: the document is written from the start of the file when
\* the file is closed; after a longer document written since this call
\* opened the file, the end of that document stays, and the file holds no
\* JSON document
WriteStep ==
    \E c \in DOMAIN calls :
        /\ calls[c].pc = "write"
        /\ calls' = [d \in DOMAIN calls \ {c} |-> calls[d]]
        /\ sessions' =
              SaveSessionData(sessions, Sid,
                              WithKey(calls[c].loaded, calls[c].key, calls[c].value),
                              IF FileSize(sessions, Sid)
                                    > DumpSize(WithKey(calls[c].loaded, calls[c].key,
                                                       calls[c].value))
                              THEN "writefail" ELSE "ok",
                              clock)
        /\ ret' = [op |-> "set_session_value", call |-> c, key |-> calls[c].key,
                   value |-> calls[c].value, loaded |-> calls[c].loaded,
                   over |-> FileSize(sessions, Sid)]
        /\ UNCHANGED <<regEnv, env, ollamaUp, clock, storiesDir, stories, images>>

NextRace ==
    \/ EnterSetSessionValue
    \/ LoadStep
    \/ OpenStep
    \/ WriteStep

SpecRace == InitRace /\ [][NextRace]_vars

\* both calls have returned, the last of them being the one ret tells of
BothReturned == calls = <<>> /\ ret.op = "set_session_value"

\* the mapping the last writer wrote: the one it loaded, with its key set
LastWritten ==
    [k \in DOMAIN ret.loaded \cup {ret.key} |->
        IF k = ret.key THEN ret.value ELSE ret.loaded[k]]

\* C15 as the spec states it: once two concurrent set_session_value calls
\* on one session id have returned, the session file equals the complete
\* mapping written by whichever writer wrote last.
C15_LastWriterWins ==
    BothReturned =>
        /\ sessions[Sid].ok
        /\ LoadSessionData(sessions, Sid, "ok") = LastWritten

\* C15, amended: two concurrent set_session_value calls can interleave so
\* that one update is lost. Once both have returned, the session file
\* equals the complete mapping written by the last writer, unless that
\* writer wrote over a longer document which the other call had written
\* after the last writer opened the file: then the file holds the last
\* writer's document followed by the end of the other one, which is no JSON
\* document, and the session reads as empty.
C15_LastWriterWinsUnlessOverLonger ==
    BothReturned =>
        IF ret.over <= DumpSize(LastWritten)
        THEN /\ sessions[Sid].ok
             /\ LoadSessionData(sessions, Sid, "ok") = LastWritten
        ELSE LoadSessionData(sessions, Sid, "ok") = EmptyDict

\* the last writer wrote over the document of the other call, whose key it
\* had not loaded: the update of the other call is lost
C15_Witness ==
    /\ BothReturned
    /\ ret.over > 0
    /\ sessions[Sid].ok
    /\ DOMAIN LoadSessionData(sessions, Sid, "ok") = {ret.key}

============================================================================
